---- MODULE Spec2Model ----
(***************************************************************************)
(* voxmem: the resumable concurrent job runner.                            *)
(*   csv_store.py   the job ledger (CsvStore, CsvRow)                      *)
(*   storage.py     the durable bundle storage (TranscriptStorage)         *)
(*   util/path.py   normalize_to_dirname                                   *)
(*   cli.py         the worker pool orchestrator (run, process_row)        *)
(* Strings the code slices or scans (file names, urls, error messages) are *)
(* sequences of characters, a character being a one-character string       *)
(* ("E_ACUTE" and "O_SLASH" name two non-ASCII characters); a job id is a  *)
(* sequence of numbers; status and the extra column are plain strings.     *)
(* An error message is a sequence of runs of one character.                *)
(***************************************************************************)
EXTENDS Integers, Sequences, FiniteSets, TLC

(***************************************************************************)
(* Bounds of the model.                                                    *)
(***************************************************************************)
\* rows of the ledger file
NumRows == 2
\* invocations of the program on the same ledger (the first run and the re-runs)
MaxRuns == 2
\* the client's max_retries goes up to MaxRetries
MaxRetries == 2
\* _rate_limit_delay is called for attempts up to MaxAttempt
MaxAttempt == 6
\* clock readings past MaxElapsed seconds are not kept apart
MaxElapsed == 10

(***************************************************************************)
(* Program constants.                                                      *)
(***************************************************************************)
\* csv_store.py:125  message[:500]
MaxErrorLen == 500
\* util/path.py:11   max_length: int = 100
DefaultMaxLength == 100

REQUIRED_COLUMNS == <<"filename", "url">>
DEFAULT_COLUMNS == <<"transcription_id", "status", "error">>

(***************************************************************************)
(* Sequence helpers.                                                       *)
(***************************************************************************)
Min(a, b) == IF a < b THEN a ELSE b

Max(a, b) == IF a > b THEN a ELSE b

Range(s) == {s[k] : k \in 1..Len(s)}

\* s[:n] of Python, n >= 0
Take(s, n) == SubSeq(s, 1, Min(n, Len(s)))

\* s[n:] of Python, n >= 0 (n counts the dropped elements)
Drop(s, n) == SubSeq(s, n + 1, Len(s))

\* the position of the first occurrence of x in s, 0 when absent
IndexOf(s, x) ==
    IF x \in Range(s) THEN CHOOSE k \in 1..Len(s) : s[k] = x /\ \A j \in 1..(k - 1) : s[j] # x
    ELSE 0

\* the position of the last occurrence of x in s, 0 when absent (str.rfind + 1)
LastIndexOf(s, x) ==
    IF x \in Range(s) THEN CHOOSE k \in 1..Len(s) : s[k] = x /\ \A j \in (k + 1)..Len(s) : s[j] # x
    ELSE 0

\* a string of n copies of the character c
\* A message is kept as a sequence of runs <<c, n>>, the character c n times
Text(chars) == [k \in 1..Len(chars) |-> <<chars[k], 1>>]

RECURSIVE TextLen(_)
TextLen(s) == IF s = <<>> THEN 0 ELSE Head(s)[2] + TextLen(Tail(s))

\* s[:n] of a message
RECURSIVE TextTake(_, _)
TextTake(s, n) ==
    IF s = <<>> \/ n <= 0 THEN <<>>
    ELSE IF Head(s)[2] >= n THEN << <<Head(s)[1], n>> >>
    ELSE <<Head(s)>> \o TextTake(Tail(s), n - Head(s)[2])

(***************************************************************************)
(* util/path.py: normalize_to_dirname.                                     *)
(***************************************************************************)
LowerLetters == {"a", "b", "c", "e", "m", "p"}
UpperLetters == {"A", "B"}
Digits == {"3"}
\* the characters _SAFE_PATTERN keeps: [A-Za-z0-9._-]
SafeChars == LowerLetters \cup UpperLetters \cup Digits \cup {".", "_", "-"}
Separators == {".", "_", "-"}
Whitespace == {" "}

\* str.strip(chars): drop the characters of cs at both ends
RECURSIVE LStrip(_, _)
LStrip(s, cs) == IF s # <<>> /\ Head(s) \in cs THEN LStrip(Tail(s), cs) ELSE s

RECURSIVE RStrip(_, _)
RStrip(s, cs) ==
    IF s # <<>> /\ s[Len(s)] \in cs THEN RStrip(SubSeq(s, 1, Len(s) - 1), cs) ELSE s

Strip(s, cs) == RStrip(LStrip(s, cs), cs)

\* Path(name).name: the last path component, "" when there is none; empty and "."
\* components are dropped by pathlib
RECURSIVE PathParts(_, _)
PathParts(s, cur) ==
    IF s = <<>> THEN (IF cur = <<>> \/ cur = <<".">> THEN <<>> ELSE <<cur>>)
    ELSE IF Head(s) = "/"
         THEN (IF cur = <<>> \/ cur = <<".">> THEN <<>> ELSE <<cur>>) \o PathParts(Tail(s), <<>>)
         ELSE PathParts(Tail(s), Append(cur, Head(s)))

PathName(s) ==
    LET parts == PathParts(s, <<>>)
    IN IF parts = <<>> THEN <<>> ELSE parts[Len(parts)]

\* Path(name).stem: the name without its last suffix; a leading or a trailing dot
\* starts no suffix
PathStem(name) ==
    LET i == LastIndexOf(name, ".")
    IN IF 1 < i /\ i < Len(name) THEN SubSeq(name, 1, i - 1) ELSE name

\* unicodedata.normalize("NFKD", c).encode("ascii", "ignore"): an accented letter
\* keeps its base letter, any other non-ASCII character is dropped
AsciiFoldChar(c) ==
    IF c = "E_ACUTE" THEN <<"e">>
    ELSE IF c = "O_SLASH" THEN <<>>
    ELSE <<c>>

RECURSIVE AsciiFold(_)
AsciiFold(s) == IF s = <<>> THEN <<>> ELSE AsciiFoldChar(Head(s)) \o AsciiFold(Tail(s))

\* candidate.replace(" ", "_")
ReplaceSpaces(s) == [k \in 1..Len(s) |-> IF s[k] = " " THEN "_" ELSE s[k]]

\* _SAFE_PATTERN.sub("_", candidate): each maximal run of unsafe characters
\* becomes one "_"
RECURSIVE SubUnsafe(_, _)
SubUnsafe(s, inRun) ==
    IF s = <<>> THEN <<>>
    ELSE IF Head(s) \in SafeChars THEN <<Head(s)>> \o SubUnsafe(Tail(s), FALSE)
    ELSE (IF inRun THEN <<>> ELSE <<"_">>) \o SubUnsafe(Tail(s), TRUE)

\* the result of normalize_to_dirname: [ok |-> TRUE, value |-> dirname] or
\* [ok |-> FALSE, value |-> <<>>] for a raised ValueError
Raised == [ok |-> FALSE, value |-> <<>>]

Returned(v) == [ok |-> TRUE, value |-> v]

normalize_to_dirname(name, max_length) ==
    IF name = <<>> THEN Raised
    ELSE LET filename == Strip(PathName(name), Whitespace)
         IN IF filename = <<>> THEN Raised
            ELSE LET stem == Strip(PathStem(filename), Whitespace)
                     c0 == IF stem # <<>> THEN stem ELSE filename
                     c1 == AsciiFold(c0)
                     c2 == ReplaceSpaces(c1)
                     c3 == SubUnsafe(c2, FALSE)
                     c4 == Strip(c3, Separators)
                 IN IF c4 = <<>> THEN Raised
                    ELSE IF max_length > 0 /\ Len(c4) > max_length
                         THEN Returned(Take(c4, max_length))
                         ELSE Returned(c4)

\* str.lower()
LowerChar(c) == IF c = "A" THEN "a" ELSE IF c = "B" THEN "b" ELSE c

Lower(s) == [k \in 1..Len(s) |-> LowerChar(s[k])]

(***************************************************************************)
(* State.                                                                  *)
(***************************************************************************)
VARIABLES
    \* the file system
    file,        \* the ledger file: a sequence of lines, the header first
    disk,        \* the bundle artifacts: a function from the paths that exist to contents
    tmp,         \* the temp file of each thread's write in progress, NoTmp when none
    \* CsvStore
    rows,        \* CsvStore.rows
    fieldnames,  \* CsvStore.fieldnames
    lock,        \* CsvStore._lock: the thread that holds it, NoThread when free
    call,        \* per thread: its mark_completed / mark_failed call in progress
    \* run()
    runState,    \* "off", "early", "dispatch", "done", "aborted", "killed", "store"
    params,      \* the command line: [workers, offset, limit]
    selected,    \* run(): selected (row indices)
    pend,        \* run(): pending (row indices, in order)
    mpc,         \* the main thread's position in run()
    nextSubmit,  \* how many rows of pending executor.submit has taken
    queue,       \* the executor's work queue (row indices)
    finished,    \* futures not yet yielded by as_completed: in the order they finished
                 \* until the first yield, in the order they are yielded after it
    fut,         \* per row: its future: "none", "queued", "running", "ok", "failed", "handled"
    result,      \* per row: what its future holds (a job id or an error message)
    wk,          \* per pool thread: the row it runs and its position in process_row
    clients,     \* the AssemblyAIClient objects constructed in this run
    completed,   \* run(): completed
    failed,      \* run(): failed
    exitCode,    \* the exit code of the last run that ended, -1 before
    \* history
    runs,        \* invocations so far
    marks,       \* per row: the mark_* calls made for it in this run, in order
    contacted,   \* rows the remote service was contacted for in this run
    saved,       \* rows whose save_bundle returned in this run
    savedKilled, \* rows whose save_bundle had returned in a run that was killed
    rows0,       \* the rows as loaded by this run
    flushOld,    \* per thread: the ledger file when its rewrite started
    \* AssemblyAIClient
    cfg,          \* the client's constructor arguments
    cl,           \* the client's position in transcribe and _retry
    last,         \* the last failed attempt of the call _retry is in, as it handled it
    lastResponse, \* the SDK client's last_response
    otherBusy,    \* another worker's client has a request in flight
    dIn,          \* _rate_limit_delay on its own: the arguments
    dOut          \* _rate_limit_delay on its own: the value returned

fsVars == <<file, disk, tmp>>
storeVars == <<rows, fieldnames, lock, call>>
runVars == <<runState, params, selected, pend, mpc, nextSubmit, queue, finished, fut, result,
             wk, clients, completed, failed, exitCode>>
histVars == <<runs, marks, contacted, saved, savedKilled, rows0, flushOld>>
clientVars == <<cfg, cl, last, lastResponse, otherBusy, dIn, dOut>>
vars == <<fsVars, storeVars, runVars, histVars, clientVars>>

MainThread == 0
\* the threads of the pool; --workers takes every value up to their number
PoolThreads == {1, 2}
Threads == {MainThread} \cup PoolThreads
NoThread == -1
NoTmp == <<"no file">>
RowIds == 1..NumRows

(***************************************************************************)
(* csv_store.py: the csv module's reader and writer, CsvRow.               *)
(***************************************************************************)
\* the empty cell of a column
Blank(col) == IF col \in {"status", "note"} THEN "" ELSE <<>>

\* csv.DictWriter.writerow({key: row.get(key, "") for key in fieldnames})
WriteRow(fields, row) ==
    [k \in 1..Len(fields) |->
        IF fields[k] \in DOMAIN row THEN row[fields[k]] ELSE Blank(fields[k])]

\* writeheader, then one writerow per row
Serialize(fields, rs) == <<fields>> \o [i \in 1..Len(rs) |-> WriteRow(fields, rs[i])]

\* csv.DictReader: one dict per line, keyed by the header
ReadRow(header, line) == [col \in Range(header) |-> line[IndexOf(header, col)]]

\* CsvStore._ensure_defaults
EnsureDefaults(row) ==
    [col \in DOMAIN row \cup Range(DEFAULT_COLUMNS) |->
        IF col \in DOMAIN row THEN row[col] ELSE Blank(col)]

\* CsvStore._load: fieldnames
LoadFieldnames(f) ==
    f[1] \o SelectSeq(DEFAULT_COLUMNS, LAMBDA col : col \notin Range(f[1]))

\* CsvStore._load: rows
LoadRows(f) == [i \in 1..(Len(f) - 1) |-> EnsureDefaults(ReadRow(f[1], f[i + 1]))]

\* CsvRow.filename, CsvRow.url: the cell, stripped
RowFilename(row) == Strip(row["filename"], Whitespace)

RowUrl(row) == Strip(row["url"], Whitespace)

\* CsvRow.is_completed
IsCompleted(row) == row["transcription_id"] # <<>> /\ row["status"] = "completed"

(***************************************************************************)
(* csv_store.py: mark_completed, mark_failed, _flush_locked.               *)
(* A call of thread t goes through the positions                           *)
(*   acquire   waiting for self._lock                                      *)
(*   write     the lock is held and the entry assigned; next mkstemp and   *)
(*             the writes to the temp file                                 *)
(*   replace   the temp file is complete; next os.replace                  *)
(*   cleanup   a write or the rename raised; next the finally clause       *)
(* and ends "returned", or "raised" when the rewrite failed.  Row index i  *)
(* of the model is index i - 1 of the code.                                *)
(***************************************************************************)
IdleCall == [pc |-> "idle", op |-> "none", index |-> 0, arg |-> <<>>]

NewCall(op, i, arg) == [pc |-> "acquire", op |-> op, index |-> i, arg |-> arg]

\* the positions at which the caller holds the lock
InCritical == {"write", "replace", "cleanup"}

\* a faulty variant: the error of an earlier failure stays
MarkCompletedEntryKeepingError(entry, transcription_id) ==
    [entry EXCEPT !["transcription_id"] = transcription_id,
                  !["status"] = "completed"]

\* mark_completed: the three assignments to the entry
MarkCompletedEntry(entry, transcription_id) ==
    [entry EXCEPT !["transcription_id"] = transcription_id,
                  !["status"] = "completed",
                  !["error"] = <<>>]

\* a faulty variant: the failure also forgets the recorded id and the extra columns
MarkFailedEntryClearing(entry, message) ==
    [col \in DOMAIN entry |->
        IF col = "status" THEN "error"
        ELSE IF col = "error" THEN TextTake(message, MaxErrorLen)
        ELSE IF col \in {"filename", "url"} THEN entry[col]
        ELSE Blank(col)]

\* a faulty variant: the whole message is recorded
MarkFailedEntryWhole(entry, message) ==
    [entry EXCEPT !["status"] = "error", !["error"] = message]

\* mark_failed: setdefault, then the two assignments to the entry
MarkFailedEntry(entry, message) ==
    LET e == IF "transcription_id" \in DOMAIN entry THEN entry
             ELSE [col \in DOMAIN entry \cup {"transcription_id"} |->
                      IF col \in DOMAIN entry THEN entry[col] ELSE <<>>]
    IN [e EXCEPT !["status"] = "error", !["error"] = TextTake(message, MaxErrorLen)]

MarkedEntry(op, entry, arg) ==
    IF op = "completed" THEN MarkCompletedEntry(entry, arg) ELSE MarkFailedEntry(entry, arg)

\* the entry after the mark_* calls recorded in ms were applied to it in order
RECURSIVE ApplyMarks(_, _)
ApplyMarks(entry, ms) ==
    IF ms = <<>> THEN entry
    ELSE ApplyMarks(MarkedEntry(Head(ms).op, entry, Head(ms).arg), Tail(ms))

\* a faulty variant: no mutual exclusion
CanAcquireAlways(t) == TRUE

\* with self._lock: the lock is taken when it is free
CanAcquire(t) == lock = NoThread

\* a faulty variant: the rows are written straight into the target
TargetDuringWriteInPlace(target, written) == written

\* what the target path holds while the temp file is being written: the writes
\* go to the temp file
TargetDuringWrite(target, written) == target

\* a faulty variant: no cleanup of the temp file
TmpAfterFailureKept(t) == tmp[t]

\* finally: if os.path.exists(tmp_path): os.unlink(tmp_path)
TmpAfterFailure(t) == NoTmp

\* the strict prefixes a failed write can leave in the temp file
Prefixes(data) == {Take(data, k) : k \in 0..(Len(data) - 1)}

\* with self._lock, then the assignments to self.rows[index]
MarkAcquire(t) ==
    /\ call[t].pc = "acquire"
    /\ CanAcquire(t)
    /\ lock' = t
    /\ rows' = [rows EXCEPT ![call[t].index] = MarkedEntry(call[t].op, @, call[t].arg)]
    /\ marks' = [marks EXCEPT ![call[t].index] =
                    Append(@, [op |-> call[t].op, arg |-> call[t].arg])]
    /\ call' = [call EXCEPT ![t].pc = "write"]
    /\ UNCHANGED <<fieldnames, fsVars, runVars>>
    /\ UNCHANGED <<runs, contacted, saved, savedKilled, rows0, flushOld>>
    /\ UNCHANGED clientVars

\* _flush_locked: tempfile.mkstemp, writeheader and the writerow loop, the close
FlushWrite(t) ==
    /\ call[t].pc = "write"
    /\ tmp' = [tmp EXCEPT ![t] = Serialize(fieldnames, rows)]
    /\ file' = TargetDuringWrite(file, tmp'[t])
    /\ flushOld' = [flushOld EXCEPT ![t] = file]
    /\ call' = [call EXCEPT ![t].pc = "replace"]
    /\ UNCHANGED <<disk, rows, fieldnames, lock, runVars>>
    /\ UNCHANGED <<runs, marks, contacted, saved, savedKilled, rows0>>
    /\ UNCHANGED clientVars

\* _flush_locked: tempfile.mkstemp, then a write raises OSError part of the way
FlushWriteFault(t) ==
    /\ call[t].pc = "write"
    /\ \E part \in Prefixes(Serialize(fieldnames, rows)) :
          /\ tmp' = [tmp EXCEPT ![t] = part]
          /\ file' = TargetDuringWrite(file, part)
    /\ flushOld' = [flushOld EXCEPT ![t] = file]
    /\ call' = [call EXCEPT ![t].pc = "cleanup"]
    /\ UNCHANGED <<disk, rows, fieldnames, lock, runVars>>
    /\ UNCHANGED <<runs, marks, contacted, saved, savedKilled, rows0>>
    /\ UNCHANGED clientVars

\* _flush_locked: os.replace(tmp_path, self.path); the finally clause finds no
\* temp file, the with block drops the lock and the call returns
FlushReplace(t) ==
    /\ call[t].pc = "replace"
    /\ file' = tmp[t]
    /\ tmp' = [tmp EXCEPT ![t] = NoTmp]
    /\ lock' = NoThread
    /\ call' = [call EXCEPT ![t].pc = "returned"]
    /\ UNCHANGED <<disk, rows, fieldnames, runVars, histVars>>
    /\ UNCHANGED clientVars

\* _flush_locked: os.replace raises OSError
FlushReplaceFault(t) ==
    /\ call[t].pc = "replace"
    /\ call' = [call EXCEPT ![t].pc = "cleanup"]
    /\ UNCHANGED <<fsVars, rows, fieldnames, lock, runVars, histVars>>
    /\ UNCHANGED clientVars

\* _flush_locked: the finally clause on the way out of a failed rewrite; the
\* exception then leaves the with block, which drops the lock
FlushCleanup(t) ==
    /\ call[t].pc = "cleanup"
    /\ tmp' = [tmp EXCEPT ![t] = TmpAfterFailure(t)]
    /\ lock' = NoThread
    /\ call' = [call EXCEPT ![t].pc = "raised"]
    /\ UNCHANGED <<file, disk, rows, fieldnames, runVars, histVars>>
    /\ UNCHANGED clientVars

(***************************************************************************)
(* csv_store.py: slice, ensure_unique_filenames, pending.                  *)
(***************************************************************************)
\* --limit absent
NoLimit == -1

\* a faulty variant: the rows are numbered from the start of the slice
SliceRenumbered(n, offset, limit) ==
    LET start == Min(offset, n)
        end == IF limit = NoLimit THEN n ELSE Min(start + Max(limit, 0), n)
    IN [k \in 1..Max(end - start, 0) |-> k]

\* CsvStore.slice: the indices of the rows it returns, in order; n is len(self.rows)
Slice(n, offset, limit) ==
    LET start == Min(offset, n)
        end == IF limit = NoLimit THEN n ELSE Min(start + Max(limit, 0), n)
    IN [k \in 1..Max(end - start, 0) |-> start + k]

\* a faulty variant: the first duplicate ends the loop
RECURSIVE EnsureUniqueScanFirst(_, _, _, _)
EnsureUniqueScanFirst(rs, sel, seen, duplicates) ==
    IF sel = <<>> \/ duplicates # {}
    THEN [error |-> IF duplicates # {} THEN "duplicates" ELSE "none",
          row |-> 0, duplicates |-> duplicates]
    ELSE LET name == RowFilename(rs[Head(sel)])
             norm == normalize_to_dirname(name, DefaultMaxLength)
         IN IF ~norm.ok
            THEN [error |-> "normalize", row |-> Head(sel), duplicates |-> {}]
            ELSE LET key == Lower(norm.value)
                 IN IF key \in seen
                    THEN EnsureUniqueScanFirst(rs, Tail(sel), seen, duplicates \cup {name})
                    ELSE EnsureUniqueScanFirst(rs, Tail(sel), seen \cup {key}, duplicates)

\* CsvStore.ensure_unique_filenames: the loop over the rows, then the check of
\* duplicates; error is "none", "normalize" (a name that cannot be normalized
\* stops the loop) or "duplicates"
RECURSIVE EnsureUniqueScan(_, _, _, _)
EnsureUniqueScan(rs, sel, seen, duplicates) ==
    IF sel = <<>>
    THEN [error |-> IF duplicates # {} THEN "duplicates" ELSE "none",
          row |-> 0, duplicates |-> duplicates]
    ELSE LET name == RowFilename(rs[Head(sel)])
             norm == normalize_to_dirname(name, DefaultMaxLength)
         IN IF ~norm.ok
            THEN [error |-> "normalize", row |-> Head(sel), duplicates |-> {}]
            ELSE LET key == Lower(norm.value)
                 IN IF key \in seen
                    THEN EnsureUniqueScan(rs, Tail(sel), seen, duplicates \cup {name})
                    ELSE EnsureUniqueScan(rs, Tail(sel), seen \cup {key}, duplicates)

\* a faulty variant: the names are compared as they are written
EnsureUniqueByName(rs, sel) ==
    LET names == [k \in 1..Len(sel) |-> RowFilename(rs[sel[k]])]
        bad == {k \in 1..Len(sel) : ~normalize_to_dirname(names[k], DefaultMaxLength).ok}
        rep == {k \in 1..Len(sel) : \E j \in 1..(k - 1) : names[j] = names[k]}
    IN  IF bad # {}
        THEN [error |-> "normalize", row |-> sel[CHOOSE k \in bad : \A l \in bad : k <= l],
              duplicates |-> {}]
        ELSE [error |-> IF rep # {} THEN "duplicates" ELSE "none", row |-> 0,
              duplicates |-> {names[k] : k \in rep}]

EnsureUniqueFilenames(rs, sel) == EnsureUniqueScan(rs, sel, {}, {})

\* a faulty variant: every selected row is dispatched
PendingAll(rs, sel) == sel

\* a faulty variant: a row that failed is not taken up again
PendingNeverTried(rs, sel) ==
    SelectSeq(sel, LAMBDA i : ~IsCompleted(rs[i]) /\ rs[i]["status"] # "error")

\* CsvStore.pending
Pending(rs, sel) == SelectSeq(sel, LAMBDA i : ~IsCompleted(rs[i]))

(***************************************************************************)
(* The remote service and the artifacts of a bundle.                       *)
(***************************************************************************)
\* the id the service gives the job of row i submitted by run r: a fresh one
JobId(r, i) == <<r, i>>

\* the id of a job of an earlier session, recorded in the initial ledger
OldJobId(i) == <<0, i>>

\* str(exc) of the failures of process_row
MsgMissingFilename == Text(<<"n", "o", "n", "a", "m", "e">>)
MsgMissingUrl(filename) == Text(filename \o <<":", "n", "o", "u", "r", "l">>)
MsgStorage == Text(<<"o", "s", "e", "r", "r">>)
\* the text of a remote failure (str(exc) of the SDK's error, response.error of
\* a job that ended in error): any text, of any length
RemoteErrors == {<< <<"r", MaxErrorLen + 1>> >>}
\* str(exc) of what client.transcribe raises
TranscribeErrors == RemoteErrors

Artifacts == <<"json", "vtt", "srt">>

\* what the service returns for a job: response.dict(), the two exports
RemoteData(job, kind) == <<kind, job>>

\* storage.py: json.dumps(payload) for the payload, the text as it is for captions
ArtifactData(job, kind) ==
    IF kind = "json" THEN <<"{">> \o RemoteData(job, kind) \o <<"}">>
    ELSE RemoteData(job, kind)

FileLetters == <<"a", "B", "c", "e", "m", "p">>

\* the file name of row i: distinct rows normalize to distinct folders
FileNameOf(i) == <<FileLetters[i], ".", "m">>

\* a faulty variant: the folder is named after the file name as it is
FolderRaw(filename) == Returned(filename)

\* the folder names of the file names of the ledger, computed once
FolderTable ==
    [name \in {FileNameOf(i) : i \in RowIds} |-> normalize_to_dirname(name, DefaultMaxLength)]

\* storage.py: _ensure_folder, the folder of a file name (under the output root)
Folder(filename) ==
    IF filename \in DOMAIN FolderTable THEN FolderTable[filename]
    ELSE normalize_to_dirname(filename, DefaultMaxLength)

\* storage.py: save_bundle, folder / f"{transcription_id}.{kind}"
ArtifactPath(folder, job, kind) == <<folder, job, kind>>

\* the file system after path was given content
WithFile(d, path, content) ==
    [q \in DOMAIN d \cup {path} |-> IF q = path THEN content ELSE d[q]]

\* storage.py: _atomic_write writes to the temp file, the target is untouched
ArtifactDuringWrite(d, path, written) == d

\* a faulty variant: save_bundle returns before the last caption file is written
SavedArtifactsNoSrt == <<"json", "vtt">>

\* save_bundle: _write_json, then _write_text for vtt and for srt (transcribe
\* returns both captions as text, never None)
SavedArtifacts == Artifacts

(***************************************************************************)
(* cli.py: process_row, run by a pool thread w for the row it took.        *)
(*   idle -> transcribe -> save_bundle -> idle                             *)
(* client.transcribe is one step here: it returns the bundle of a new job  *)
(* or raises.  save_bundle writes each artifact with _atomic_write:        *)
(*   aw_write -> aw_replace                      (aw_cleanup on an error)  *)
(***************************************************************************)
IdleWorker == [pc |-> "idle", row |-> 0, job |-> <<>>, art |-> 0, client |-> <<>>]

\* a faulty variant: the factory keeps its client in one place for all threads
SlotShared(w) == MainThread

\* threading.local(): the place where a thread's client_factory keeps its client
Slot(w) == w

\* AssemblyAIClient(...): the client objects, told apart by the thread that
\* constructed them and by how many that thread had constructed
NewClient(w) == <<w, 1 + Cardinality({c \in clients : c[1] = w})>>

\* client_factory() on thread w: the client its place holds, a new one when
\* the place is empty
client_factory(w) ==
    LET held == {c \in clients : Slot(c[1]) = Slot(w)}
    IN  IF held = {} THEN NewClient(w) ELSE CHOOSE c \in held : TRUE

\* a faulty variant: the pool starts a thread for every row, whatever max_workers
IsPoolThreadUnbounded(w) == w \in PoolThreads

\* the pool has max_workers threads
IsPoolThread(w) == w \in 1..params.workers

Running(w) == runState = "dispatch" /\ IsPoolThread(w) /\ wk[w].pc # "idle"

\* the path of the artifact thread w is writing
CurrentPath(w) ==
    ArtifactPath(Folder(RowFilename(rows[wk[w].row])).value, wk[w].job,
                 SavedArtifacts[wk[w].art])

CurrentData(w) == ArtifactData(wk[w].job, SavedArtifacts[wk[w].art])

\* process_row raised: the future of row i holds the exception and is finished
FutureFails(w, i, message) ==
    /\ fut' = [fut EXCEPT ![i] = "failed"]
    /\ result' = [result EXCEPT ![i] = message]
    /\ finished' = Append(finished, i)
    /\ wk' = [wk EXCEPT ![w] = IdleWorker]

\* process_row returned: the future of row i holds the WorkerResult and is finished
FutureReturns(w, i, job) ==
    /\ fut' = [fut EXCEPT ![i] = "ok"]
    /\ result' = [result EXCEPT ![i] = job]
    /\ finished' = Append(finished, i)
    /\ wk' = [wk EXCEPT ![w] = IdleWorker]

\* a pool thread takes the next work item of the queue and runs process_row up
\* to the call of client.transcribe: the checks of filename and url, then
\* client_factory()
WStart(w) ==
    /\ runState = "dispatch" /\ IsPoolThread(w)
    /\ wk[w].pc = "idle"
    /\ queue # <<>>
    /\ queue' = Tail(queue)
    /\ LET i == Head(queue)
           row == rows[i]
       IN IF RowFilename(row) = <<>>
          THEN FutureFails(w, i, MsgMissingFilename) /\ UNCHANGED clients
          ELSE IF RowUrl(row) = <<>>
          THEN FutureFails(w, i, MsgMissingUrl(RowFilename(row))) /\ UNCHANGED clients
          ELSE /\ clients' = clients \cup {client_factory(w)}
               /\ wk' = [wk EXCEPT ![w] = [IdleWorker EXCEPT !.pc = "transcribe", !.row = i,
                                                           !.client = client_factory(w)]]
               /\ fut' = [fut EXCEPT ![i] = "running"]
               /\ UNCHANGED <<result, finished>>
    /\ UNCHANGED <<fsVars, storeVars, histVars>>
    /\ UNCHANGED <<runState, params, selected, pend, mpc, nextSubmit,
                   completed, failed, exitCode>>
    /\ UNCHANGED clientVars

\* client.transcribe(row.url): the service is contacted; the call returns the
\* data of a new, completed job, or raises (a remote error, exhausted retries,
\* a job that ended in error, the timeout)
WTranscribe(w) ==
    /\ Running(w) /\ wk[w].pc = "transcribe"
    /\ contacted' = contacted \cup {wk[w].row}
    /\ \/ /\ wk' = [wk EXCEPT ![w].pc = "aw_write",
                              ![w].job = JobId(runs, wk[w].row),
                              ![w].art = 1]
          /\ UNCHANGED <<fut, result, finished>>
       \/ \E message \in TranscribeErrors : FutureFails(w, wk[w].row, message)
    /\ UNCHANGED <<fsVars, storeVars>>
    /\ UNCHANGED <<runs, marks, saved, savedKilled, rows0, flushOld>>
    /\ UNCHANGED <<runState, params, selected, pend, mpc, nextSubmit, queue, clients,
                   completed, failed, exitCode>>
    /\ UNCHANGED clientVars

\* _atomic_write: tempfile.mkstemp, fh.write(data), the close
AwWrite(w) ==
    /\ Running(w) /\ wk[w].pc = "aw_write"
    /\ tmp' = [tmp EXCEPT ![w] = CurrentData(w)]
    /\ disk' = ArtifactDuringWrite(disk, CurrentPath(w), tmp'[w])
    /\ wk' = [wk EXCEPT ![w].pc = "aw_replace"]
    /\ UNCHANGED <<file, storeVars, histVars>>
    /\ UNCHANGED <<runState, params, selected, pend, mpc, nextSubmit, queue, finished, fut,
                   result, clients, completed, failed, exitCode>>
    /\ UNCHANGED clientVars

\* _atomic_write: tempfile.mkstemp, then the write raises OSError part of the way
AwWriteFault(w) ==
    /\ Running(w) /\ wk[w].pc = "aw_write"
    /\ \E part \in Prefixes(CurrentData(w)) :
          /\ tmp' = [tmp EXCEPT ![w] = part]
          /\ disk' = ArtifactDuringWrite(disk, CurrentPath(w), part)
    /\ wk' = [wk EXCEPT ![w].pc = "aw_cleanup"]
    /\ UNCHANGED <<file, storeVars, histVars>>
    /\ UNCHANGED <<runState, params, selected, pend, mpc, nextSubmit, queue, finished, fut,
                   result, clients, completed, failed, exitCode>>
    /\ UNCHANGED clientVars

\* _atomic_write: os.replace(tmp_path, target); after the last artifact
\* save_bundle returns and process_row returns its WorkerResult
AwReplace(w) ==
    /\ Running(w) /\ wk[w].pc = "aw_replace"
    /\ disk' = WithFile(disk, CurrentPath(w), tmp[w])
    /\ tmp' = [tmp EXCEPT ![w] = NoTmp]
    /\ IF wk[w].art < Len(SavedArtifacts)
       THEN /\ wk' = [wk EXCEPT ![w].pc = "aw_write", ![w].art = @ + 1]
            /\ UNCHANGED <<saved, fut, result, finished>>
       ELSE /\ saved' = saved \cup {wk[w].row}
            /\ FutureReturns(w, wk[w].row, wk[w].job)
    /\ UNCHANGED <<file, storeVars>>
    /\ UNCHANGED <<runs, marks, contacted, savedKilled, rows0, flushOld>>
    /\ UNCHANGED <<runState, params, selected, pend, mpc, nextSubmit, queue,
                   clients, completed, failed, exitCode>>
    /\ UNCHANGED clientVars

\* _atomic_write: os.replace raises OSError
AwReplaceFault(w) ==
    /\ Running(w) /\ wk[w].pc = "aw_replace"
    /\ wk' = [wk EXCEPT ![w].pc = "aw_cleanup"]
    /\ UNCHANGED <<fsVars, storeVars, histVars>>
    /\ UNCHANGED <<runState, params, selected, pend, mpc, nextSubmit, queue, finished, fut,
                   result, clients, completed, failed, exitCode>>
    /\ UNCHANGED clientVars

\* _atomic_write: finally: if os.path.exists(tmp_path): os.unlink(tmp_path)
ArtifactTmpAfterFailure(w) == NoTmp

\* _atomic_write: the finally clause of a failed write; the OSError then leaves
\* save_bundle and process_row
AwCleanup(w) ==
    /\ Running(w) /\ wk[w].pc = "aw_cleanup"
    /\ tmp' = [tmp EXCEPT ![w] = ArtifactTmpAfterFailure(w)]
    /\ FutureFails(w, wk[w].row, MsgStorage)
    /\ UNCHANGED <<file, disk, storeVars, histVars>>
    /\ UNCHANGED <<runState, params, selected, pend, mpc, nextSubmit, queue, clients,
                   completed, failed, exitCode>>
    /\ UNCHANGED clientVars

(***************************************************************************)
(* cli.py: run(), the main thread.                                         *)
(*   StartRun   the load, slice, ensure_unique_filenames, pending          *)
(*   submit     the executor.submit of every pending row                   *)
(*   drain      the as_completed loop: one mark_* call per finished future *)
(*   unwind     an exception of mark_* leaves the loop: the with block of  *)
(*              the executor waits for the pool, then run() raises         *)
(***************************************************************************)
NoRows == [i \in RowIds |-> <<>>]

\* a faulty variant: every finished future is handled as a success
OutcomeOpAlwaysCompleted(state) == "completed"

\* the as_completed loop: future.result() raises for a failed future (the
\* except branch calls mark_failed), returns otherwise (mark_completed)
OutcomeOp(state) == IF state = "failed" THEN "failed" ELSE "completed"

\* the state in which a process starts: nothing in memory
FreshProcess ==
    /\ lock' = NoThread
    /\ call' = [t \in Threads |-> IdleCall]
    /\ tmp' = [t \in Threads |-> NoTmp]
    /\ wk' = [w \in PoolThreads |-> IdleWorker]
    /\ queue' = <<>>
    /\ finished' = <<>>
    /\ nextSubmit' = 0
    /\ fut' = [i \in RowIds |-> "none"]
    /\ result' = NoRows
    /\ clients' = {}
    /\ completed' = 0
    /\ failed' = 0
    /\ marks' = NoRows
    /\ contacted' = {}
    /\ saved' = {}
    /\ flushOld' = [t \in Threads |-> <<>>]

\* run(): from the start of the process to the first executor.submit
RunToDispatch ==
    /\ runs' = runs + 1
    /\ FreshProcess
    /\ LET rs == LoadRows(file)
           sel == Slice(Len(rs), params.offset, params.limit)
           pnd == Pending(rs, sel)
       IN /\ rows' = rs
          /\ rows0' = rs
          /\ fieldnames' = LoadFieldnames(file)
          /\ selected' = sel
          /\ IF sel = <<>>
             THEN pend' = <<>> /\ runState' = "early" /\ exitCode' = 0 /\ mpc' = "exit"
             ELSE IF EnsureUniqueFilenames(rs, sel).error # "none"
             THEN pend' = <<>> /\ runState' = "aborted" /\ exitCode' = 1 /\ mpc' = "exit"
             ELSE IF pnd = <<>>
             THEN pend' = <<>> /\ runState' = "early" /\ exitCode' = 0 /\ mpc' = "exit"
             ELSE pend' = pnd /\ runState' = "dispatch" /\ exitCode' = -1 /\ mpc' = "submit"
    /\ UNCHANGED <<file, disk, params, savedKilled>>
    /\ UNCHANGED clientVars

\* the first invocation
StartRun ==
    /\ runState = "off"
    /\ RunToDispatch

\* the program is started again on the same ledger, with the same command line
Restart ==
    /\ runState \in {"early", "done", "aborted", "killed"}
    /\ runs < MaxRuns
    /\ RunToDispatch

\* the dict comprehension: executor.submit(process_row, row, ...) for the next
\* pending row
MSubmit ==
    /\ runState = "dispatch" /\ mpc = "submit"
    /\ LET i == pend[nextSubmit + 1]
       IN /\ fut' = [fut EXCEPT ![i] = "queued"]
          /\ queue' = Append(queue, i)
    /\ nextSubmit' = nextSubmit + 1
    /\ mpc' = IF nextSubmit + 1 = Len(pend) THEN "drain" ELSE "submit"
    /\ UNCHANGED <<fsVars, storeVars, histVars>>
    /\ UNCHANGED <<runState, params, selected, pend, finished, result, wk, clients,
                   completed, failed, exitCode>>
    /\ UNCHANGED clientVars

\* the orders in which the members of a set can be listed
Orders(S) ==
    {s \in [1..Cardinality(S) -> S] : \A j, k \in DOMAIN s : j # k => s[j] # s[k]}

\* concurrent.futures.as_completed, for the first future it yields: the
\* futures that have finished when the iterator starts are collected in a set
\* and yielded first, in the order of the iteration of the set; the iterator
\* starts at any moment between the last submit and its first yield
AsCompleted(done) == Orders(Range(done))

\* a faulty variant: the loop takes the futures in the order of submission
\* and waits for the next of them
YieldedInOrder(fin, pnd, handled) ==
    IF handled < Len(pnd) /\ pnd[handled + 1] \in Range(fin)
    THEN {<<pnd[handled + 1]>> \o SelectSeq(fin, LAMBDA j : j # pnd[handled + 1])}
    ELSE {}

\* the futures as_completed has to yield, in the order it yields them, the
\* next one first: the futures that finish after the iterator started are
\* yielded in the order they finish
Yielded(fin, pnd, handled) ==
    IF fin = <<>> THEN {}
    ELSE IF handled = 0 THEN AsCompleted(fin)
    ELSE {fin}

\* as_completed yields the next future; the loop body up to the call of
\* mark_failed or mark_completed
MYield ==
    /\ runState = "dispatch" /\ mpc = "drain"
    /\ \E order \in Yielded(finished, pend, completed + failed) :
          LET i == Head(order)
              op == OutcomeOp(fut[i])
          IN /\ call' = [call EXCEPT ![MainThread] = NewCall(op, i, result[i])]
             /\ failed' = IF op = "failed" THEN failed + 1 ELSE failed
             /\ finished' = Tail(order)
    /\ mpc' = "mark"
    /\ UNCHANGED <<fsVars, rows, fieldnames, lock, histVars>>
    /\ UNCHANGED <<runState, params, selected, pend, nextSubmit, queue, fut, result, wk,
                   clients, completed, exitCode>>
    /\ UNCHANGED clientVars

\* mark_* returned: the rest of the loop body
MMarkReturned ==
    /\ runState = "dispatch" /\ mpc = "mark"
    /\ call[MainThread].pc = "returned"
    /\ completed' = IF call[MainThread].op = "completed" THEN completed + 1 ELSE completed
    /\ call' = [call EXCEPT ![MainThread] = IdleCall]
    /\ mpc' = "drain"
    /\ UNCHANGED <<fsVars, rows, fieldnames, lock, histVars>>
    /\ UNCHANGED <<runState, params, selected, pend, nextSubmit, queue, finished, fut, result,
                   wk, clients, failed, exitCode>>
    /\ UNCHANGED clientVars

\* mark_* raised: nothing in run() catches it
MMarkRaised ==
    /\ runState = "dispatch" /\ mpc = "mark"
    /\ call[MainThread].pc = "raised"
    /\ call' = [call EXCEPT ![MainThread] = IdleCall]
    /\ mpc' = "unwind"
    /\ UNCHANGED <<fsVars, rows, fieldnames, lock, histVars>>
    /\ UNCHANGED <<runState, params, selected, pend, nextSubmit, queue, finished, fut, result,
                   wk, clients, completed, failed, exitCode>>
    /\ UNCHANGED clientVars

\* ThreadPoolExecutor.__exit__ on the way out with the exception: shutdown(wait=True)
\* returns when the pool has run every queued row; the process ends with the error
MUnwound ==
    /\ runState = "dispatch" /\ mpc = "unwind"
    /\ queue = <<>>
    /\ \A w \in PoolThreads : wk[w].pc = "idle"
    /\ runState' = "aborted"
    /\ exitCode' = 1
    /\ mpc' = "exit"
    /\ UNCHANGED <<fsVars, storeVars, histVars>>
    /\ UNCHANGED <<params, selected, pend, nextSubmit, queue, finished, fut, result, wk,
                   clients, completed, failed>>
    /\ UNCHANGED clientVars

\* a faulty variant: the run exits with 0 whatever failed
ExitCodeAlwaysZero(nfailed) == 0

\* if failed: raise typer.Exit(code=1)
ExitCode(nfailed) == IF nfailed # 0 THEN 1 ELSE 0

\* every future was yielded: the summary and the exit code
MFinish ==
    /\ runState = "dispatch" /\ mpc = "drain"
    /\ completed + failed = Len(pend)
    /\ runState' = "done"
    /\ exitCode' = ExitCode(failed)
    /\ mpc' = "exit"
    /\ UNCHANGED <<fsVars, storeVars, histVars>>
    /\ UNCHANGED <<params, selected, pend, nextSubmit, queue, finished, fut, result, wk,
                   clients, completed, failed>>
    /\ UNCHANGED clientVars

\* the process is killed: what it held in memory is gone, the files stay (a temp
\* file it leaves behind has a name no later mkstemp returns and is not read again)
Kill ==
    /\ runState = "dispatch"
    /\ runState' = "killed"
    /\ FreshProcess
    /\ savedKilled' = savedKilled \cup saved
    /\ rows' = <<>>
    /\ fieldnames' = <<>>
    /\ rows0' = <<>>
    /\ selected' = <<>>
    /\ pend' = <<>>
    /\ mpc' = "exit"
    /\ exitCode' = -1
    /\ UNCHANGED <<file, disk, params, runs>>
    /\ UNCHANGED clientVars

(***************************************************************************)
(* The initial ledger and command line.                                    *)
(***************************************************************************)
FullHeader == <<"filename", "url", "note", "transcription_id", "status", "error">>

\* a row never attempted, one without a url, one that failed in an earlier
\* session, one that an earlier session completed
RowKinds == {"new", "nourl", "failed", "done"}

InitialRow(i, kind) ==
    [col \in Range(FullHeader) |->
        CASE col = "filename" -> FileNameOf(i)
          [] col = "url" -> IF kind = "nourl" THEN <<" ">> ELSE <<"u", FileLetters[i]>>
          [] col = "note" -> "keep"
          [] col = "transcription_id" -> IF kind = "done" THEN OldJobId(i) ELSE <<>>
          [] col = "status" ->
                IF kind = "done" THEN "completed" ELSE IF kind = "failed" THEN "error" ELSE ""
          [] col = "error" -> IF kind = "failed" THEN Text(<<"o", "l", "d">>) ELSE <<>>]

\* the ledger files: one with every column, and one with the required columns
\* only (its rows were never attempted)
InitialKinds ==
    {kinds \in [RowIds -> RowKinds] :
        Cardinality({i \in RowIds : kinds[i] # "new"}) \in {0, 1, NumRows}}

InitialLedgers ==
    {Serialize(FullHeader, [i \in RowIds |-> InitialRow(i, kinds[i])]) :
        kinds \in InitialKinds}
    \cup {Serialize(REQUIRED_COLUMNS, [i \in RowIds |-> InitialRow(i, "new")])}

\* the bundles of the rows the ledger records as done are on disk
InitialDisk(f) ==
    LET rs == LoadRows(f)
        done == {i \in RowIds : IsCompleted(rs[i])}
        paths == {ArtifactPath(Folder(RowFilename(rs[i])).value, OldJobId(i), Artifacts[k]) :
                     i \in done, k \in 1..Len(Artifacts)}
    IN [q \in paths |-> ArtifactData(q[2], q[3])]

Offsets == {0, 1}

InitialParams == [workers : 1..Cardinality(PoolThreads), offset : Offsets, limit : {NoLimit}]

InitRun ==
    /\ tmp = [t \in Threads |-> NoTmp]
    /\ lock = NoThread
    /\ call = [t \in Threads |-> IdleCall]
    /\ selected = <<>>
    /\ pend = <<>>
    /\ mpc = "exit"
    /\ nextSubmit = 0
    /\ queue = <<>>
    /\ finished = <<>>
    /\ fut = [i \in RowIds |-> "none"]
    /\ result = NoRows
    /\ wk = [w \in PoolThreads |-> IdleWorker]
    /\ clients = {}
    /\ completed = 0
    /\ failed = 0
    /\ exitCode = -1
    /\ runs = 0
    /\ marks = NoRows
    /\ contacted = {}
    /\ saved = {}
    /\ savedKilled = {}
    /\ flushOld = [t \in Threads |-> <<>>]

\* no client is followed
NoClient == <<>>

InitCommon ==
    /\ file \in InitialLedgers
    /\ disk = InitialDisk(file)
    /\ InitRun
    /\ cfg = NoClient
    /\ cl = NoClient
    /\ last = NoClient
    /\ lastResponse = NoClient
    /\ otherBusy = FALSE
    /\ dIn = NoClient
    /\ dOut = NoClient

\* before the first invocation
Init ==
    /\ InitCommon
    /\ params \in InitialParams
    /\ runState = "off"
    /\ rows = <<>>
    /\ fieldnames = <<>>
    /\ rows0 = <<>>

(***************************************************************************)
(* The store on its own: a CsvStore was constructed on the ledger and the  *)
(* pool threads call mark_completed and mark_failed on it, each thread     *)
(* once, with any row and any argument; a rewrite may meet an I/O error.   *)
(***************************************************************************)
MarkArgs ==
    [op : {"completed"}, arg : {JobId(1, 1)}]
        \cup [op : {"failed"}, arg : {MsgStorage} \cup RemoteErrors]

\* a thread calls store.mark_completed(i, id) or store.mark_failed(i, message)
MarkBegin(t) ==
    /\ runState = "store"
    /\ call[t].pc = "idle"
    /\ \E i \in RowIds, m \in MarkArgs : call' = [call EXCEPT ![t] = NewCall(m.op, i, m.arg)]
    /\ UNCHANGED <<fsVars, rows, fieldnames, lock, runVars, histVars>>
    /\ UNCHANGED clientVars

\* CsvStore(path): __init__ and _load
InitStore ==
    /\ InitCommon
    /\ params \in {p \in InitialParams : p.workers = 1 /\ p.offset = 0}
    /\ runState = "store"
    /\ rows = LoadRows(file)
    /\ fieldnames = LoadFieldnames(file)
    /\ rows0 = LoadRows(file)

NextStore ==
    \E t \in PoolThreads :
        \/ MarkBegin(t)
        \/ MarkAcquire(t)
        \/ FlushWrite(t)
        \/ FlushReplace(t)
        \/ FlushWriteFault(t)
        \/ FlushReplaceFault(t)
        \/ FlushCleanup(t)

SpecStore == InitStore /\ [][NextStore]_vars

(***************************************************************************)
(* Spec: one invocation, which may be killed at any point and may meet an  *)
(* I/O error at any write or rename.  SpecLive: one invocation that is not *)
(* killed and whose ledger rewrites meet no I/O error, its threads         *)
(* scheduled fairly.  SpecResume: up to MaxRuns invocations on the same    *)
(* ledger, each of which may be killed.                                    *)
(***************************************************************************)
MainStep ==
    \/ MSubmit
    \/ MYield
    \/ MMarkReturned
    \/ MFinish

StoreStep(t) ==
    \/ MarkAcquire(t)
    \/ FlushWrite(t)
    \/ FlushReplace(t)

StoreFault(t) ==
    \/ FlushWriteFault(t)
    \/ FlushReplaceFault(t)
    \/ FlushCleanup(t)

WorkerStep(w) ==
    \/ WStart(w)
    \/ WTranscribe(w)
    \/ AwWrite(w)
    \/ AwReplace(w)

WorkerFault(w) ==
    \/ AwWriteFault(w)
    \/ AwReplaceFault(w)
    \/ AwCleanup(w)

\* the steps of a program that is not killed and meets no I/O error
NextClean ==
    \/ StartRun
    \/ MainStep
    \/ StoreStep(MainThread)
    \/ \E w \in PoolThreads : WorkerStep(w)

\* the steps of a program that is not killed and whose ledger rewrites succeed
NextLive ==
    \/ NextClean
    \/ \E w \in PoolThreads : WorkerFault(w)

Next ==
    \/ NextLive
    \/ Kill
    \/ MMarkRaised
    \/ MUnwound
    \/ StoreFault(MainThread)

Spec == Init /\ [][Next]_vars

NextResume ==
    \/ NextClean
    \/ Kill
    \/ Restart

SpecResume == Init /\ [][NextResume]_vars /\ WF_vars(NextResume)

\* the steps of a program that is not killed, whose ledger rewrites succeed and
\* that is started again when it has exited
NextRetry ==
    \/ NextLive
    \/ Restart

SpecRetry == Init /\ [][NextRetry]_vars

\* the steps of the threads of a run that was started
Dispatched ==
    \/ MainStep
    \/ StoreStep(MainThread)
    \/ \E w \in PoolThreads : WorkerStep(w) \/ WorkerFault(w)

\* the threads of a live process keep running
SpecLive == Init /\ [][NextLive]_vars /\ WF_vars(Dispatched)

(***************************************************************************)
(* transcription.py: AssemblyAIClient.  Durations and clock readings are   *)
(* counted in tenths of a second.  Every AssemblyAIClient wraps the        *)
(* process-wide aai.Client.get_default(): its http_client carries the      *)
(* requests of every thread's AssemblyAIClient and its last_response is    *)
(* the response that arrived last, whoever sent the request.               *)
(***************************************************************************)
Seconds(n) == n * 10

\* floats: a finite value, nan or inf
Fin(v) == [kind |-> "fin", v |-> v]
NaN == [kind |-> "nan", v |-> 0]
PosInf == [kind |-> "inf", v |-> 0]

\* a > b on floats
FloatGT(a, b) ==
    CASE a.kind = "nan" \/ b.kind = "nan" -> FALSE
      [] a.kind = "inf" -> b.kind = "fin"
      [] b.kind = "inf" -> FALSE
      [] OTHER -> a.v > b.v

\* a >= b on floats
FloatGE(a, b) ==
    CASE a.kind = "nan" \/ b.kind = "nan" -> FALSE
      [] a.kind = "inf" -> TRUE
      [] b.kind = "inf" -> FALSE
      [] OTHER -> a.v >= b.v

\* max(a, b): a unless b is greater
PyMax(a, b) == IF FloatGT(b, a) THEN b ELSE a

\* a - now, now a finite clock reading
FloatSub(a, now) == IF a.kind = "fin" THEN Fin(a.v - now) ELSE a

\* header values: no header, an empty value, a value float() rejects, the
\* text of a finite number, "nan", "inf"
Absent == [kind |-> "absent", v |-> 0]
EmptyValue == [kind |-> "empty", v |-> 0]
TextValue == [kind |-> "text", v |-> 0]
NumValue(v) == [kind |-> "num", v |-> v]
NanValue == [kind |-> "nan", v |-> 0]
InfValue == [kind |-> "inf", v |-> 0]

\* if header: a header that is there and is not the empty string
Truthy(h) == h.kind \notin {"absent", "empty"}

\* float(header) does not raise ValueError
Parses(h) == h.kind \in {"num", "nan", "inf"}

\* float(header)
FloatOf(h) ==
    CASE h.kind = "num" -> Fin(h.v)
      [] h.kind = "nan" -> NaN
      [] h.kind = "inf" -> PosInf

\* self._client.last_response: None before the first response
NoStatus == 0
NoResponse == [status |-> NoStatus, retry_after |-> Absent, reset |-> Absent, by |-> NoThread]
Response(status, retry_after, reset, by) ==
    [status |-> status, retry_after |-> retry_after, reset |-> reset, by |-> by]

\* a faulty variant: a 400 is retried as well
TransientStatusesAnd400 == {400, 429, 500, 502, 503, 504}

TransientStatuses == {429, 500, 502, 503, 504}

\* a faulty variant: every attempt sleeps one second more than the last
backoff_delay_linear(attempt) == Fin(Seconds(attempt))

\* _backoff_delay(attempt)
backoff_delay(attempt) == Fin(Seconds(Min(2 ^ attempt, 30)))

\* _rate_limit_delay(response, attempt), time.time() returning now
rate_limit_delay(response, attempt, now) ==
    IF response # NoResponse /\ Truthy(response.retry_after) /\ Parses(response.retry_after)
    THEN PyMax(FloatOf(response.retry_after), Fin(Seconds(1)))
    ELSE IF response # NoResponse /\ Truthy(response.reset) /\ Parses(response.reset)
    THEN PyMax(FloatSub(FloatOf(response.reset), now), Fin(Seconds(1)))
    ELSE backoff_delay(attempt)

\* the worker thread whose client is followed step by step, and another
\* worker thread with a client of its own
ThisWorker == 1
OtherWorker == 2

\* time.sleep was not reached
NoSleep == [kind |-> "none", v |-> 0]

\* the clock readings kept apart
Horizon == Seconds(MaxElapsed)

IdleClient ==
    [pc |-> "idle", op |-> "none", attempt |-> 0, invoked |-> 0, elapsed |-> 0,
     delay |-> NoSleep, own |-> NoStatus, err |-> "none", last_status |-> "unknown",
     failures |-> 0, transient |-> 0, limited |-> 0, events |-> 0, sleeps |-> 0,
     earlier |-> FALSE]

\* AssemblyAIClient(api_key, poll_interval, timeout, on_rate_limit), max_retries
ClientCfgs ==
    [max_retries : 1..MaxRetries, timeout : {Seconds(3)}, poll_interval : {Seconds(2)},
     observer : BOOLEAN]

\* the statuses of the responses the SDK raises an error for
ErrorStatuses == TransientStatuses \cup {400}
\* the Retry-After header of an error response
RetryAfters(status) == IF status = 429 THEN {Absent, NumValue(Seconds(2))} ELSE {Absent}
JobStatuses == {"queued", "completed", "error"}

\* the attempt raised something else than an SDK error: it has no response
NoException == -1

\* the last failed attempt of a call as _retry handled it: the status of the
\* attempt's own response (NoException: none), the status and the Retry-After _retry
\* read from last_response, whether the observer was called, the sleep
Attempt(own, seen, retry_after, event, delay) ==
    [own |-> own, seen |-> seen, retry_after |-> retry_after, event |-> event, delay |-> delay]

\* no attempt of the call has failed
NoAttempt == Attempt(NoStatus, NoStatus, Absent, FALSE, NoSleep)

\* a faulty variant: the attempt counter goes on from the call before
StartCallSameCounter(c, op) ==
    [c EXCEPT !.pc = "call", !.op = op, !.attempt = Max(@, 1), !.invoked = 0,
              !.delay = NoSleep, !.own = NoStatus, !.failures = 0, !.transient = 0,
              !.limited = 0, !.events = 0, !.sleeps = 0]

\* self._retry(func) is entered
StartCall(c, op) ==
    [c EXCEPT !.pc = "call", !.op = op, !.attempt = 1, !.invoked = 0, !.delay = NoSleep,
              !.own = NoStatus, !.failures = 0, !.transient = 0, !.limited = 0, !.events = 0,
              !.sleeps = 0]

\* an attempt of the call failed: its own status was own, _retry read seen
Failed(c, own, seen, event) ==
    [c EXCEPT !.failures = @ + 1,
              !.transient = IF seen \in TransientStatuses THEN @ + 1 ELSE @,
              !.limited = IF seen = 429 THEN @ + 1 ELSE @,
              !.events = IF event THEN @ + 1 ELSE @]

Raise(c, err) == [c EXCEPT !.pc = "raised", !.err = err]

otherClientVars == <<cfg, otherBusy, dIn, dOut>>
programVars == <<fsVars, storeVars, runVars, histVars>>

\* client.transcribe(url) is called
CBegin ==
    /\ runState = "client" /\ cl.pc = "idle"
    /\ cl' = StartCall(cl, "submit")
    /\ last' = NoAttempt
    /\ UNCHANGED <<lastResponse, otherClientVars, programVars>>

\* _retry: func() sends its request
CInvoke ==
    /\ cl.pc = "call"
    /\ cl' = [cl EXCEPT !.pc = "wait", !.invoked = @ + 1]
    /\ UNCHANGED <<last, lastResponse, otherClientVars, programVars>>

\* after func() returned: submit's transcript id, the poll loop, the exports
AfterReturn(c) ==
    CASE c.op = "submit" ->
            {[c EXCEPT !.pc = "check", !.elapsed = 0],
             Raise(c, "missing id")}
      [] c.op = "fetch" ->
            {IF s = "completed" THEN StartCall([c EXCEPT !.last_status = s], "vtt")
             ELSE IF s = "error" THEN Raise([c EXCEPT !.last_status = s], "job error")
             ELSE [c EXCEPT !.pc = "pollsleep", !.last_status = s] : s \in JobStatuses}
      [] c.op = "vtt" -> {StartCall(c, "srt")}
      [] c.op = "srt" -> {[c EXCEPT !.pc = "returned"]}

\* func() returns: the response is the SDK client's last response
CSuccess ==
    /\ cl.pc = "wait"
    /\ lastResponse' = Response(200, Absent, Absent, ThisWorker)
    /\ cl' \in AfterReturn([cl EXCEPT !.earlier = @ \/ cl.failures > 0])
    /\ last' = IF cl'.pc = "call" THEN NoAttempt ELSE last
    /\ UNCHANGED <<otherClientVars, programVars>>

\* func() raises an SDK error for the response it got
CSdkError ==
    /\ cl.pc = "wait"
    /\ \E s \in ErrorStatuses : \E h \in RetryAfters(s) :
        /\ lastResponse' = Response(s, h, Absent, ThisWorker)
        /\ cl' = [cl EXCEPT !.pc = "caught", !.own = s]
    /\ UNCHANGED <<last, otherClientVars, programVars>>

\* func() raises an SDK error and no response arrived for the attempt
CSdkErrorNoResponse ==
    /\ cl.pc = "wait"
    /\ cl' = [cl EXCEPT !.pc = "caught", !.own = NoStatus]
    /\ UNCHANGED <<last, lastResponse, otherClientVars, programVars>>

\* a faulty variant: the observer is called for every transient status
EmitsEventAnyTransient(status, response) ==
    cfg.observer /\ response # NoResponse

\* status == 429 and self._on_rate_limit and response is not None
EmitsEvent(status, response) ==
    status = 429 /\ cfg.observer /\ response # NoResponse

\* _retry, except SDKError: the status of last_response decides
CCaught ==
    /\ cl.pc = "caught"
    /\ LET response == lastResponse
           status == response.status
           delay == rate_limit_delay(response, cl.attempt, 0)
           event == EmitsEvent(status, response)
       IN  IF status \in TransientStatuses
           THEN /\ cl' = [Failed(cl, cl.own, status, event) EXCEPT
                             !.pc = "sleep", !.delay = delay]
                /\ last' = Attempt(cl.own, status, response.retry_after, event, delay)
           ELSE /\ cl' = Raise(Failed(cl, cl.own, status, FALSE), "remote")
                /\ last' = Attempt(cl.own, status, response.retry_after, FALSE, NoSleep)
    /\ UNCHANGED <<lastResponse, otherClientVars, programVars>>

\* func() raises another exception, no response arrived
CException ==
    /\ cl.pc = "wait"
    /\ IF cl.attempt = cfg.max_retries
       THEN /\ cl' = Raise(Failed(cl, NoException, NoStatus, FALSE), "unexpected")
            /\ last' = Attempt(NoException, NoStatus, Absent, FALSE, NoSleep)
       ELSE /\ cl' = [Failed(cl, NoException, NoStatus, FALSE) EXCEPT
                         !.pc = "sleep", !.delay = backoff_delay(cl.attempt)]
            /\ last' = Attempt(NoException, NoStatus, Absent, FALSE,
                               backoff_delay(cl.attempt))
    /\ UNCHANGED <<lastResponse, otherClientVars, programVars>>

\* _retry: time.sleep(delay), then the next attempt, or the end of the loop
CSleep ==
    /\ cl.pc = "sleep"
    /\ LET c == [cl EXCEPT !.elapsed = Min(@ + cl.delay.v, Horizon), !.sleeps = @ + 1]
       IN  cl' = IF cl.delay.kind # "fin" THEN Raise(cl, "sleep")
                 ELSE IF cl.attempt = cfg.max_retries THEN Raise(c, "max retries")
                 ELSE [c EXCEPT !.pc = "call", !.attempt = @ + 1]
    /\ UNCHANGED <<last, lastResponse, otherClientVars, programVars>>

\* a faulty variant: the poll loop has no timeout
TimedOutNever(elapsed, timeout) == FALSE

\* (time.monotonic() - start) > self.timeout
TimedOut(elapsed, timeout) == elapsed > timeout

\* transcribe: the top of the poll loop
CCheck ==
    /\ cl.pc = "check"
    /\ IF TimedOut(cl.elapsed, cfg.timeout)
       THEN cl' = Raise(cl, "timeout") /\ last' = last
       ELSE cl' = StartCall(cl, "fetch") /\ last' = NoAttempt
    /\ UNCHANGED <<lastResponse, otherClientVars, programVars>>

\* transcribe: time.sleep(self.poll_interval)
CPollSleep ==
    /\ cl.pc = "pollsleep"
    /\ cl' = [cl EXCEPT !.pc = "check", !.elapsed = Min(@ + cfg.poll_interval, Horizon)]
    /\ UNCHANGED <<last, lastResponse, otherClientVars, programVars>>

\* the other worker's client sends a request through the SDK client
OtherRequest ==
    /\ runState = "client" /\ params.workers > 1
    /\ ~otherBusy
    /\ otherBusy' = TRUE
    /\ UNCHANGED <<cl, last, lastResponse, cfg, dIn, dOut, programVars>>

\* the other worker's response arrives
OtherResponse ==
    /\ otherBusy
    /\ otherBusy' = FALSE
    /\ \E s \in {200} \cup ErrorStatuses : \E h \in RetryAfters(s) :
        lastResponse' = Response(s, h, Absent, OtherWorker)
    /\ UNCHANGED <<cl, last, cfg, dIn, dOut, programVars>>

InitNoClient ==
    /\ cl = IdleClient
    /\ last = NoAttempt
    /\ lastResponse = NoResponse
    /\ otherBusy = FALSE
    /\ dIn = <<>>
    /\ dOut = NoSleep

\* a worker thread made its client and calls transcribe for a row, next to
\* the other worker threads of the run
InitClient ==
    /\ InitRun
    /\ InitNoClient
    /\ file = <<>> /\ disk = <<>>
    /\ rows = <<>> /\ fieldnames = <<>> /\ rows0 = <<>>
    /\ params \in {p \in InitialParams : p.offset = 0}
    /\ runState = "client"
    /\ cfg \in ClientCfgs

NextClient ==
    \/ CBegin
    \/ CInvoke
    \/ CSuccess
    \/ CSdkError
    \/ CSdkErrorNoResponse
    \/ CCaught
    \/ CException
    \/ CSleep
    \/ CCheck
    \/ CPollSleep
    \/ OtherRequest
    \/ OtherResponse

SpecClient == InitClient /\ [][NextClient]_vars

\* the steps of the followed worker's client
ClientStep ==
    \/ CBegin
    \/ CInvoke
    \/ CSuccess
    \/ CSdkError
    \/ CSdkErrorNoResponse
    \/ CCaught
    \/ CException
    \/ CSleep
    \/ CCheck
    \/ CPollSleep

\* a run with one worker
InitClientLive == InitClient /\ params.workers = 1

\* the worker thread keeps running and every request it sends ends
SpecClientLive == InitClientLive /\ [][ClientStep]_vars /\ WF_vars(ClientStep)

(***************************************************************************)
(* _rate_limit_delay on its own: a response, an attempt number and a clock *)
(* reading, and one call.                                                  *)
(***************************************************************************)
HeaderValues ==
    {Absent, EmptyValue, TextValue, NanValue, InfValue}
        \cup {NumValue(v) : v \in {0, 5, Seconds(2), Seconds(60)}}

DelayInputs ==
    [response : {NoResponse} \cup
                    {Response(429, ra, rs, ThisWorker) : ra \in HeaderValues, rs \in HeaderValues},
     attempt : 1..MaxAttempt,
     now : {Seconds(1)}]

DelayCall ==
    /\ runState = "delay" /\ dOut = NoSleep
    /\ dOut' = rate_limit_delay(dIn.response, dIn.attempt, dIn.now)
    /\ UNCHANGED <<cl, last, lastResponse, cfg, otherBusy, dIn, programVars>>

InitDelay ==
    /\ InitRun
    /\ cl = IdleClient /\ last = NoAttempt /\ lastResponse = NoResponse /\ otherBusy = FALSE
    /\ file = <<>> /\ disk = <<>>
    /\ rows = <<>> /\ fieldnames = <<>> /\ rows0 = <<>>
    /\ params \in {p \in InitialParams : p.offset = 0 /\ p.workers = 1}
    /\ runState = "delay"
    /\ cfg \in {c \in ClientCfgs : c.max_retries = 1 /\ c.observer}
    /\ dIn \in DelayInputs
    /\ dOut = NoSleep

NextDelay == DelayCall

SpecDelay == InitDelay /\ [][NextDelay]_vars

(***************************************************************************)
(* Properties.                                                             *)
(***************************************************************************)
\* row i as a process would load it from the ledger file now
FileRow(i) == EnsureDefaults(ReadRow(file[1], file[i + 1]))

\* the number of rows of the ledger file
FileLen == Len(file) - 1

\* the folder the normalized file name gives
NormalFolder(filename) ==
    IF filename \in DOMAIN FolderTable THEN FolderTable[filename].value
    ELSE normalize_to_dirname(filename, DefaultMaxLength).value

\* the run is past the load of the ledger and its memory is still there
Loaded == runState \in {"early", "dispatch", "done", "aborted"}

PendingRows == Range(pend)

MarkOps(i) == {marks[i][k].op : k \in 1..Len(marks[i])}

\* C1: in one run, whatever the number of workers and the order in which the
\* rows finish, a pending row is marked at most once and a row that was not
\* pending never; when the run has gone through every future, each pending row
\* was marked exactly once, by mark_completed when process_row returned and by
\* mark_failed when it raised, and the ledger file holds as many rows as were
\* loaded, the status of each pending row being its outcome.
C1_ExactlyOneMark ==
    Loaded =>
        /\ \A i \in RowIds : Len(marks[i]) <= 1
        /\ \A i \in RowIds \ PendingRows : marks[i] = <<>>
        /\ runState = "done" =>
              /\ FileLen = Len(rows0)
              /\ \A i \in PendingRows :
                    /\ Len(marks[i]) = 1
                    /\ \/ /\ fut[i] = "ok"
                          /\ marks[i][1].op = "completed"
                          /\ FileRow(i)["status"] = "completed"
                       \/ /\ fut[i] = "failed"
                          /\ marks[i][1].op = "failed"
                          /\ FileRow(i)["status"] = "error"

\* a run with two workers ended, one row completed and another failed
C1_Witness ==
    /\ runState = "done"
    /\ params.workers = 2
    /\ \E i, j \in PendingRows : fut[i] = "ok" /\ fut[j] = "failed"

BundleOnDisk(filename, id) ==
    \A k \in 1..Len(Artifacts) :
        LET path == ArtifactPath(NormalFolder(filename), id, Artifacts[k])
        IN path \in DOMAIN disk /\ disk[path] = ArtifactData(id, Artifacts[k])

\* C3: mark_completed is called for a row only after save_bundle returned for
\* it, and in every state, the state after a kill included, a row that the
\* ledger file records as completed with a job of this run has the three
\* files of its bundle, complete, on disk.
C3_BundleBeforeMark ==
    /\ \A t \in Threads :
          (call[t].pc # "idle" /\ call[t].op = "completed") => call[t].index \in saved
    /\ \A i \in RowIds : "completed" \in MarkOps(i) => i \in saved
    /\ \A i \in 1..FileLen :
          (IsCompleted(FileRow(i)) /\ FileRow(i)["transcription_id"] = JobId(runs, i)) =>
              BundleOnDisk(RowFilename(FileRow(i)), FileRow(i)["transcription_id"])

\* the process was killed after it had recorded a row as completed
C3_Witness ==
    /\ runState = "killed"
    /\ \E i \in 1..FileLen :
          IsCompleted(FileRow(i)) /\ FileRow(i)["transcription_id"] = JobId(runs, i)

\* C4: the service is contacted, and a future created, only for rows that
\* were not done when the ledger was loaded; a run whose selected rows are
\* all done contacts the service for no row and constructs no client.
C4_OnlyPendingContacted ==
    Loaded =>
        /\ \A i \in RowIds :
              (i \in contacted \/ fut[i] # "none") =>
                  /\ ~IsCompleted(rows0[i])
                  /\ i \in Range(selected)
        /\ (\A k \in 1..Len(selected) : IsCompleted(rows0[selected[k]])) =>
              /\ contacted = {}
              /\ clients = {}
              /\ queue = <<>>

\* a run ended that contacted the service for one row and found another done
C4_Witness ==
    /\ runState = "done"
    /\ contacted # {}
    /\ \E i \in Range(selected) : IsCompleted(rows0[i]) /\ fut[i] = "none"

\* C5: when a run is killed and the program is started again on the same
\* ledger, the service is not contacted again for a row whose bundle had been
\* saved before the kill.
C5_NoDuplicateWork == savedKilled \cap contacted = {}

\* the outcome of a run that ended: each pending row is terminal in the ledger
\* file, a failed one with status error
AllTerminal ==
    /\ runState = "done"
    /\ \A i \in PendingRows :
          /\ Len(marks[i]) = 1
          /\ FileRow(i)["status"] \in {"completed", "error"}
          /\ fut[i] = "failed" => FileRow(i)["status"] = "error"

WholeLedger(f) ==
    /\ Len(f) = NumRows + 1
    /\ \A k \in 1..Len(f) : Len(f[k]) = Len(f[1])

\* C7: the files written through a temp file and a rename are never torn: in
\* every state, the state after a kill included, the ledger file is whole;
\* from the start of a rewrite up to its rename, and when the rewrite failed,
\* it is the file as it was, and when mark_* returned it is the rows in memory;
\* every artifact on disk holds its complete content.
C7_NeverTorn ==
    /\ WholeLedger(file)
    /\ \A t \in Threads :
          /\ call[t].pc \in {"replace", "cleanup", "raised"} => file = flushOld[t]
          /\ call[t].pc = "returned" => file = Serialize(fieldnames, rows)
    /\ \A path \in DOMAIN disk : disk[path] = ArtifactData(path[2], path[3])

\* a write of the ledger's temp file failed part of the way while a pool
\* thread is between the write and the rename of an artifact
C7_Witness ==
    /\ call[MainThread].pc = "cleanup"
    /\ Len(tmp[MainThread]) \in 1..NumRows
    /\ \E w \in PoolThreads : wk[w].pc = "aw_replace" /\ wk[w].art = 2

\* C8: when a rewrite of the ledger failed after its temp file was created,
\* the call raises, the temp file is gone and the ledger file is the one that
\* was there before the call.
C8_FailedRewrite ==
    \A t \in Threads :
        call[t].pc = "raised" =>
            /\ tmp[t] = NoTmp
            /\ file = flushOld[t]
            /\ lock # t

\* mark_completed raised for a row: the file still has the row as it was
C8_Witness ==
    /\ call[MainThread].pc = "raised"
    /\ call[MainThread].op = "completed"
    /\ rows[call[MainThread].index]["status"] = "completed"
    /\ FileRow(call[MainThread].index)["status"] # "completed"

\* the rows after every mutation made so far
MarkedRows == [i \in 1..Len(rows0) |-> ApplyMarks(rows0[i], marks[i])]

\* C9: at most one call of mark_completed / mark_failed is between the
\* update of its row and the end of its rewrite, and the temp file a rewrite
\* is about to rename holds the rows with every mutation made so far.
C9_Linearized ==
    /\ Cardinality({t \in Threads : call[t].pc \in InCritical}) <= 1
    /\ \A t \in Threads : call[t].pc \in InCritical => lock = t
    /\ \A t \in Threads :
          call[t].pc = "replace" => tmp[t] = Serialize(fieldnames, MarkedRows)

\* a thread is about to rename while the other waits for the lock
C9_Witness ==
    \E t, u \in PoolThreads :
        /\ call[t].pc = "replace"
        /\ call[u].pc = "acquire"
        /\ call[t].index # call[u].index

\* new is old but for the columns a mark_* call assigns, and is old when no
\* call was made for the row
FrameRow(old, new, ms) ==
    /\ DOMAIN new = DOMAIN old
    /\ \A col \in DOMAIN old :
          (ms = <<>> \/ col \notin Range(DEFAULT_COLUMNS)) => new[col] = old[col]

\* C10 as stated: a rewrite leaves the column list of the file as it was.
C10_SameHeader ==
    \A t \in Threads : call[t].pc = "returned" => file[1] = flushOld[t][1]

\* C10: mark_completed and mark_failed change row i only: the number of
\* rows, their order, and the column list of the loaded ledger (the columns
\* of the file, then the default columns it lacked) stay as they were, in
\* memory and in the rewritten file; a row no call was made for is as it was
\* loaded, and a marked row differs in transcription_id, status and error only.
C10_Frame ==
    /\ fieldnames = LoadFieldnames(file)
    /\ \A t \in Threads :
          call[t].pc \in {"replace", "cleanup", "returned", "raised"} =>
              LoadFieldnames(flushOld[t]) = fieldnames
    /\ Len(rows) = Len(rows0)
    /\ FileLen = Len(rows0)
    /\ \A i \in 1..Len(rows0) :
          /\ FrameRow(rows0[i], rows[i], marks[i])
          /\ FrameRow(rows0[i], FileRow(i), marks[i])

\* mark_failed returned on a ledger whose file had the required columns only
C10_Witness ==
    \E t \in PoolThreads :
        /\ call[t].pc = "returned"
        /\ call[t].op = "failed"
        /\ flushOld[t][1] = REQUIRED_COLUMNS
        /\ FileRow(call[t].index)["status"] = "error"

\* the rows inside process_row now
InProcessRow == {w \in PoolThreads : wk[w].pc # "idle"}

\* C11: at every moment of a run the number of rows inside process_row is at
\* most the configured number of workers, however many rows are pending.
C11_BoundedConcurrency ==
    Loaded => Cardinality(InProcessRow) <= params.workers

\* one worker is configured, it is inside process_row and another pending
\* row waits in the queue
C11_Witness ==
    /\ params.workers = 1
    /\ Cardinality(InProcessRow) = 1
    /\ queue # <<>>
    /\ Len(pend) > params.workers

\* the worker threads that hold a client: from client_factory() to the end of
\* process_row
UsingClient == {w \in PoolThreads : wk[w].client # <<>>}

C12_WitnessReuse ==
    \E w \in UsingClient :
        /\ \E i \in contacted : i # wk[w].row
        /\ Cardinality(clients) = 1
        /\ params.workers = 1

\* the run went into dispatch and the process has exited
Exited == runState \in {"done", "aborted"}

\* the rows this run marked failed
FailedRows ==
    {i \in PendingRows : "failed" \in MarkOps(i) /\ FileRow(i)["status"] = "error"}

\* the rows the ledger file and the disk hold as a success of this run
PersistedRows ==
    {i \in PendingRows :
        /\ fut[i] = "ok"
        /\ FileRow(i)["status"] = "completed"
        /\ FileRow(i)["transcription_id"] = result[i]
        /\ BundleOnDisk(FileRow(i)["filename"], result[i])}

\* C13 as stated: a run that reaches dispatch exits with a non-zero code if
\* and only if at least one row ended the run marked failed.
C13_ExitIffFailed ==
    Exited => (exitCode # 0 <=> FailedRows # {})

\* C13, amended: a run that reaches dispatch and goes through every future
\* exits with a non-zero code if and only if at least one row ended the run
\* marked failed; a run that a failed ledger rewrite aborts exits with a
\* non-zero code whatever the rows; in both, the rows whose mark_completed
\* returned stay completed in the ledger file with their bundle on disk.
C13_ExitCode ==
    /\ runState = "done" =>
          /\ exitCode # 0 <=> FailedRows # {}
          /\ \A i \in PendingRows : fut[i] = "ok" => i \in PersistedRows
    /\ runState = "aborted" =>
          /\ exitCode # 0
          /\ Cardinality(PersistedRows) >= completed

\* a run ended with one row marked failed and another persisted as a success
C13_Witness ==
    /\ runState = "done"
    /\ exitCode # 0
    /\ FailedRows # {}
    /\ PersistedRows # {}

\* the client is in the poll loop of transcribe
InPollLoop == cl.pc \in {"check", "pollsleep"} \/ (cl.pc # "raised" /\ cl.op = "fetch")

\* the remote status the client saw last is not a terminal one
NoTerminal == cl.last_status \notin {"completed", "error"}

C14_PollLoop ==
    /\ (cl.pc = "raised" /\ cl.err = "timeout") =>
          /\ cl.elapsed > cfg.timeout
          /\ NoTerminal
    /\ (cl.op = "fetch" /\ cl.pc = "call" /\ cl.attempt = 1) => cl.elapsed <= cfg.timeout
    /\ (cl.pc = "returned" \/ cl.op \in {"vtt", "srt"}) => cl.last_status = "completed"

CallReturned == cl.pc \in {"check", "pollsleep", "returned"}

C15_WitnessNoEvent ==
    /\ cfg.observer
    /\ cl.pc = "sleep"
    /\ last.seen = 503
    /\ cl.events = 0

\* _rate_limit_delay has returned
DelayReturned == runState = "delay" /\ dOut # NoSleep

\* C16: for every response, attempt number and clock reading the delay
\* _rate_limit_delay returns is at least 1.0 second.
C16_DelayAtLeastOne ==
    DelayReturned => FloatGE(dOut, Fin(Seconds(1)))

\* the rest of C16: the delay is max(Retry-After, 1.0) when the response has a
\* Retry-After header float() accepts, else max(reset - now, 1.0) when it has a
\* reset header float() accepts, else min(2^n, 30) seconds, and that backoff
\* does not decrease with n and is never more than 30 seconds
C16_DelayFormula ==
    DelayReturned =>
        LET r == dIn.response
            n == dIn.attempt
            pure == Fin(Seconds(IF 2 ^ n < 30 THEN 2 ^ n ELSE 30))
        IN  /\ dOut =
                  CASE r # NoResponse /\ r.retry_after.kind \in {"num", "nan", "inf"} ->
                          PyMax(FloatOf(r.retry_after), Fin(Seconds(1)))
                    [] r # NoResponse /\ r.retry_after.kind \notin {"num", "nan", "inf"}
                           /\ r.reset.kind \in {"num", "nan", "inf"} ->
                          PyMax(FloatSub(FloatOf(r.reset), dIn.now), Fin(Seconds(1)))
                    [] OTHER -> pure
            /\ \A k \in 1..n : FloatGE(backoff_delay(n), backoff_delay(k))
            /\ FloatGE(Fin(Seconds(30)), backoff_delay(n))

\* C17: the retry budget is per outbound call: every call of submit, of a
\* status fetch and of an export starts with a fresh attempt counter, whatever
\* failed in the calls before it, func is invoked at most max_retries times,
\* and a call whose max_retries attempts all failed with a transient status
\* fails with the RemoteError "Maximum retries exceeded".
C17_RetryBudget ==
    (runState = "client" /\ cl.op # "none") =>
        /\ cl.invoked <= cfg.max_retries
        /\ cl.attempt <= cfg.max_retries
        /\ cl.pc = "call" => (cl.attempt = cl.invoked + 1 /\ cl.failures = cl.invoked)
        /\ cl.pc \in {"wait", "caught"} => (cl.attempt = cl.invoked /\ cl.failures = cl.invoked - 1)
        /\ (cl.transient = cfg.max_retries /\ cl.pc # "sleep") =>
              (cl.pc = "raised" /\ cl.err = "max retries")
        /\ (cl.pc = "raised" /\ cl.err = "max retries") =>
              (cl.invoked = cfg.max_retries /\ cl.failures = cfg.max_retries)

\* after a call that failed and was retried, a later call used its whole
\* budget on transient failures and failed
C17_Witness ==
    /\ cl.earlier
    /\ cfg.max_retries = MaxRetries
    /\ cl.pc = "raised" /\ cl.err = "max retries"
    /\ cl.transient = cfg.max_retries
    /\ cl.invoked = cfg.max_retries

\* the last failed attempt raised an SDK error and _retry read no transient
\* status for it
NonTransientFailure ==
    /\ last # NoAttempt
    /\ last.own # NoException
    /\ last.seen \notin {429, 500, 502, 503, 504}

C18_Witness400 ==
    /\ cfg.max_retries > 1
    /\ cl.pc = "raised" /\ cl.err = "remote"
    /\ last.seen = 400 /\ last.own = 400
    /\ cl.invoked = 1 /\ cl.sleeps = 0 /\ cl.events = 0

\* the last failed attempt raised something else than an SDK error
UnexpectedFailure == last # NoAttempt /\ last.own = NoException

\* C19: an exception of a remote call that is not an SDK error is retried
\* after the pure backoff delay of min(2^attempt, 30) seconds, with no header
\* read and no event, for up to max_retries - 1 further attempts; when the
\* max_retries-th attempt raises it too, the call fails without another sleep.
C19_UnexpectedRetried ==
    (runState = "client" /\ UnexpectedFailure) =>
        /\ ~last.event
        /\ last.seen = NoStatus /\ last.retry_after = Absent
        /\ cl.pc = "sleep" =>
              /\ cl.attempt < cfg.max_retries
              /\ cl.delay = Fin(Seconds(IF 2 ^ cl.attempt < 30 THEN 2 ^ cl.attempt ELSE 30))
              /\ last.delay = cl.delay
        /\ cl.failures < cfg.max_retries => (last.delay # NoSleep /\ cl.err # "unexpected")
        /\ cl.failures = cfg.max_retries =>
              /\ cl.pc = "raised" /\ cl.err = "unexpected"
              /\ last.delay = NoSleep
              /\ cl.invoked = cfg.max_retries
              /\ cl.sleeps = cfg.max_retries - 1

\* every attempt of a call raised an unexpected exception: the call slept
\* after each but the last and failed
C19_Witness ==
    /\ cfg.max_retries = MaxRetries
    /\ UnexpectedFailure
    /\ cl.pc = "raised" /\ cl.err = "unexpected"
    /\ cl.transient = 0
    /\ cl.failures = MaxRetries
    /\ cl.sleeps = MaxRetries - 1

\* the call of thread t was mark_completed, it has returned, and no call
\* made for its row after it has changed the row
CompletedReturned(t) ==
    /\ call[t].pc = "returned"
    /\ call[t].op = "completed"
    /\ LET ms == marks[call[t].index]
       IN  ms[Len(ms)] = [op |-> "completed", arg |-> call[t].arg]

\* the row has status completed, the given id and an empty error
IsMarkedCompleted(row, id) ==
    /\ row["status"] = "completed"
    /\ row["transcription_id"] = id
    /\ row["error"] = <<>>

\* C20: after mark_completed(i, id) returns, row i has status completed,
\* transcription_id id and an empty error, in memory and in the ledger file,
\* whatever its status, id and error were before.
C20_MarkCompleted ==
    \A t \in Threads :
        CompletedReturned(t) =>
            /\ IsMarkedCompleted(rows[call[t].index], call[t].arg)
            /\ IsMarkedCompleted(FileRow(call[t].index), call[t].arg)

\* mark_completed returned for a row that had failed in an earlier session,
\* and for a row that had been completed with another id
C20_Witness ==
    \E t \in PoolThreads :
        /\ CompletedReturned(t)
        /\ rows0[call[t].index]["status"] = "error"
        /\ rows0[call[t].index]["error"] # <<>>

C20_WitnessOtherId ==
    \E t \in PoolThreads :
        /\ CompletedReturned(t)
        /\ rows0[call[t].index]["status"] = "completed"
        /\ rows0[call[t].index]["transcription_id"] # call[t].arg

\* the call of thread t was mark_failed, it has returned, and no call made
\* for its row after it has changed the row
FailedReturned(t) ==
    /\ call[t].pc = "returned"
    /\ call[t].op = "failed"
    /\ LET ms == marks[call[t].index]
       IN  ms[Len(ms)] = [op |-> "failed", arg |-> call[t].arg]

\* the transcription_id row i had when the last call recorded for it began:
\* the id of the last mark_completed before it, or the id it was loaded with
IdBeforeLastMark(i) ==
    LET ms == marks[i]
        cs == {k \in 1..(Len(ms) - 1) : ms[k].op = "completed"}
    IN  IF cs = {} THEN rows0[i]["transcription_id"]
        ELSE ms[CHOOSE k \in cs : \A l \in cs : l <= k].arg

\* the row has status error, the first 500 characters of the message as its
\* error and the given id, so it is not done
IsMarkedFailed(row, message, id) ==
    /\ row["status"] = "error"
    /\ row["error"] = TextTake(message, 500)
    /\ TextLen(row["error"]) = Min(TextLen(message), 500)
    /\ row["transcription_id"] = id
    /\ ~IsCompleted(row)

\* C21: after mark_failed(i, msg) returns, row i has status error, error
\* equal to the first 500 characters of msg (the whole msg when shorter) and
\* the transcription_id it had before the call, in memory and in the ledger
\* file; the row is therefore pending on the next run.
C21_MarkFailed ==
    \A t \in Threads :
        FailedReturned(t) =>
            /\ IsMarkedFailed(rows[call[t].index], call[t].arg,
                              IdBeforeLastMark(call[t].index))
            /\ IsMarkedFailed(FileRow(call[t].index), call[t].arg,
                              IdBeforeLastMark(call[t].index))
            /\ call[t].index \in Range(Pending(LoadRows(file), <<call[t].index>>))

\* mark_failed returned with a message longer than the ledger keeps for a row
\* that carried an id, and with a short message
C21_Witness ==
    \E t \in PoolThreads :
        /\ FailedReturned(t)
        /\ TextLen(call[t].arg) > 500
        /\ rows0[call[t].index]["transcription_id"] # <<>>
        /\ FileRow(call[t].index)["transcription_id"] # <<>>

C21_WitnessShort ==
    \E t \in PoolThreads :
        /\ FailedReturned(t)
        /\ TextLen(call[t].arg) < 500
        /\ FileRow(call[t].index)["error"] = call[t].arg

(***************************************************************************)
(* csv_store.py on its own: pending, slice and ensure_unique_filenames     *)
(* applied once to a list of rows whose cells may carry blanks around      *)
(* their text; util/path.py: normalize_to_dirname applied once to a name.  *)
(***************************************************************************)
\* the longest list of rows given to a function
MaxList == 3

Completed == <<"c", "o", "m", "p", "l", "e", "t", "e", "d">>

\* the cells a user's ledger may hold in its transcription_id and status columns
IdCells == {<<>>, <<" ">>, <<" ", "7">>}
StatusCells ==
    {<<>>, Completed, <<" ">> \o Completed \o <<" ">>, <<"e", "r", "r", "o", "r">>}

\* CsvRow: the index of the row in the ledger and its cells
CsvRow(index, data) == [index |-> index, data |-> data]

\* CsvRow.transcription_id, CsvRow.status: the cell, stripped; None is <<>>
RowTranscriptionId(data) == Strip(data["transcription_id"], Whitespace)
RowStatus(data) == Strip(data["status"], Whitespace)

\* CsvRow.is_completed; IsCompleted is its value on the cells the program
\* writes, which carry no blanks
is_completed(row) ==
    RowTranscriptionId(row.data) # <<>> /\ RowStatus(row.data) = Completed

\* a faulty variant: a row with an id is done whatever its status
pending_by_id(rs) == SelectSeq(rs, LAMBDA row : RowTranscriptionId(row.data) = <<>>)

\* CsvStore.pending on CsvRow objects
pending(rs) == SelectSeq(rs, LAMBDA row : ~is_completed(row))

\* the lists of at most MaxList rows, as slice returns them from some offset
PendingInputs ==
    UNION {[1..n -> [transcription_id : IdCells, status : StatusCells]] : n \in 0..MaxList}

NotCalled == [done |-> FALSE]
Called(v) == [done |-> TRUE, value |-> v]

PendingCall ==
    /\ runState = "pending" /\ ~dOut.done
    /\ dOut' = Called(pending(dIn))
    /\ UNCHANGED <<cl, last, lastResponse, cfg, otherBusy, dIn, programVars>>

InitFunction ==
    /\ InitRun
    /\ cl = IdleClient /\ last = NoAttempt /\ lastResponse = NoResponse /\ otherBusy = FALSE
    /\ file = <<>> /\ disk = <<>>
    /\ rows = <<>> /\ fieldnames = <<>> /\ rows0 = <<>>
    /\ params \in {p \in InitialParams : p.offset = 0 /\ p.workers = 1}
    /\ cfg \in {c \in ClientCfgs : c.max_retries = 1 /\ c.observer}
    /\ dOut = NotCalled

InitPending ==
    /\ InitFunction
    /\ runState = "pending"
    /\ \E o \in Offsets, ds \in PendingInputs :
          dIn = [k \in 1..Len(ds) |-> CsvRow(o + k - 1, ds[k])]

NextPending == PendingCall

SpecPending == InitPending /\ [][NextPending]_vars

\* the positions of the rows of rs that are not done: the id, stripped, is
\* empty or the status, stripped, is not completed
NotDone(rs) ==
    {k \in 1..Len(rs) :
        \/ RowTranscriptionId(rs[k].data) = <<>>
        \/ RowStatus(rs[k].data) # Completed}

\* the n-th smallest member of a set of numbers
RECURSIVE Nth(_, _)
Nth(S, n) ==
    LET lo == CHOOSE k \in S : \A l \in S : k <= l
    IN  IF n = 1 THEN lo ELSE Nth(S \ {lo}, n - 1)

\* C22: pending(rows) returns exactly the rows of its input that are not
\* done, done meaning a non-empty transcription_id and the status completed,
\* in the order of the input, each row once and none dropped.
C22_Pending ==
    (runState = "pending" /\ dOut.done) =>
        /\ Len(dOut.value) = Cardinality(NotDone(dIn))
        /\ \A j \in 1..Len(dOut.value) : dOut.value[j] = dIn[Nth(NotDone(dIn), j)]

\* pending was given a done row between two rows that are not done: one with
\* an id and another status, one with the status completed and a blank id
C22_Witness ==
    /\ runState = "pending" /\ dOut.done
    /\ Len(dIn) = 3 /\ Len(dOut.value) = 2
    /\ is_completed(dIn[2])
    /\ RowTranscriptionId(dIn[1].data) # <<>>
    /\ RowStatus(dIn[3].data) = Completed

\* the limit argument of slice: None, or a number
NoneLimit == [given |-> FALSE, value |-> 0]
SomeLimit(n) == [given |-> TRUE, value |-> n]

\* the rows of a ledger of n rows, kept apart by their url
LedgerOf(n) == [k \in 1..n |-> [url |-> <<"u", k>>]]

\* a faulty variant: the rows are numbered from the start of the slice
slice_renumbered(rs, offset, limit) ==
    IF offset < 0 THEN Raised
    ELSE LET ix == Slice(Len(rs), offset,
                         IF limit.given THEN Max(limit.value, 0) ELSE NoLimit)
         IN  Returned([k \in 1..Len(ix) |-> CsvRow(k - 1, rs[ix[k]])])

\* a faulty variant: the row at offset + limit is returned too
slice_inclusive(rs, offset, limit) ==
    IF offset < 0 THEN Raised
    ELSE LET ix == Slice(Len(rs), offset,
                         IF limit.given THEN Max(limit.value, 0) + 1 ELSE NoLimit)
         IN  Returned([k \in 1..Len(ix) |-> CsvRow(ix[k] - 1, rs[ix[k]])])

\* CsvStore.slice on the rows of the store: the ValueError of a negative
\* offset, or the CsvRow objects, whose index is the Python position of the row
slice(rs, offset, limit) ==
    IF offset < 0 THEN Raised
    ELSE LET ix == Slice(Len(rs), offset,
                         IF limit.given THEN Max(limit.value, 0) ELSE NoLimit)
         IN  Returned([k \in 1..Len(ix) |-> CsvRow(ix[k] - 1, rs[ix[k]])])

SliceInputs ==
    [rows : {LedgerOf(n) : n \in 0..MaxList},
     offset : -1..(MaxList + 1),
     limit : {NoneLimit} \cup {SomeLimit(n) : n \in -1..(MaxList + 1)}]

SliceCall ==
    /\ runState = "slice" /\ ~dOut.done
    /\ dOut' = Called(slice(dIn.rows, dIn.offset, dIn.limit))
    /\ UNCHANGED <<cl, last, lastResponse, cfg, otherBusy, dIn, programVars>>

InitSlice ==
    /\ InitFunction
    /\ runState = "slice"
    /\ dIn \in SliceInputs

NextSlice == SliceCall

SpecSlice == InitSlice /\ [][NextSlice]_vars

\* the positions, counted from 0, in [offset, offset + limit) and in
\* [0, number of rows); every position from offset on when limit is absent
SlicePositions(n, offset, limit) ==
    {p \in 0..(n - 1) : offset <= p /\ (limit.given => p < offset + limit.value)}

\* C23: slice(offset, limit) returns, in ledger order, exactly the rows at the
\* positions of [offset, offset + limit) that the ledger has (all rows from
\* offset when limit is absent), an empty list when offset is at or past the
\* end, and it raises a validation error, returning no rows, when offset is
\* negative.
C23_Slice ==
    (runState = "slice" /\ dOut.done) =>
        LET ps == SlicePositions(Len(dIn.rows), dIn.offset, dIn.limit)
            out == dOut.value
        IN  /\ dIn.offset < 0 <=> ~out.ok
            /\ ~out.ok => out.value = <<>>
            /\ out.ok =>
                  /\ Len(out.value) = Cardinality(ps)
                  /\ \A j \in 1..Len(out.value) :
                        /\ out.value[j].index = Nth(ps, j)
                        /\ out.value[j].data = dIn.rows[Nth(ps, j) + 1]
                  /\ dIn.offset >= Len(dIn.rows) => out.value = <<>>

\* slice returned rows from the middle of the ledger, stopped by its limit
C23_Witness ==
    /\ runState = "slice" /\ dOut.done
    /\ dIn.offset = 1 /\ dIn.limit = SomeLimit(1) /\ Len(dIn.rows) = 3
    /\ dOut.value.ok /\ Len(dOut.value.value) = 1

\* slice raised for a negative offset; returned nothing past the end; ran to
\* the end of the ledger without a limit
C23_WitnessNegative ==
    runState = "slice" /\ dOut.done /\ dIn.offset < 0 /\ ~dOut.value.ok

C23_WitnessPastEnd ==
    /\ runState = "slice" /\ dOut.done
    /\ dIn.rows # <<>> /\ dIn.offset >= Len(dIn.rows) /\ dOut.value = Returned(<<>>)

C23_WitnessNoLimit ==
    /\ runState = "slice" /\ dOut.done
    /\ dIn.offset = 1 /\ ~dIn.limit.given /\ dOut.value.ok /\ Len(dOut.value.value) = 2

(***************************************************************************)
(* File names that collide or cannot be normalized: a run on a ledger      *)
(* whose rows carry any of these names, and ensure_unique_filenames        *)
(* applied once to a list of rows.                                         *)
(***************************************************************************)
\* two names of different folders, two more that share the folder of the
\* first (another case, another suffix), a missing name and a name of which
\* nothing safe remains
FileNames ==
    {<<"a", ".", "m">>, <<"B", ".", "m">>, <<"A", ".", "m">>, <<"a", ".", "p">>,
     <<>>, <<"?">>}

NamedRow(i, kind, name) == [InitialRow(i, kind) EXCEPT !["filename"] = name]

NamedLedgers ==
    {Serialize(FullHeader, [i \in RowIds |-> NamedRow(i, kinds[i], names[i])]) :
        kinds \in [RowIds -> {"new", "nourl", "done"}], names \in [RowIds -> FileNames]}

UniqueInputs ==
    UNION {[1..n -> [filename : FileNames]] : n \in 0..MaxList}

\* store.ensure_unique_filenames(rows) on its own
UniqueCall ==
    /\ runState = "unique" /\ ~dOut.done
    /\ dOut' = Called(EnsureUniqueFilenames(dIn, [k \in 1..Len(dIn) |-> k]))
    /\ UNCHANGED <<cl, last, lastResponse, cfg, otherBusy, dIn, programVars>>

InitNames ==
    \/ /\ InitRun
       /\ cfg = NoClient /\ cl = NoClient /\ last = NoClient /\ lastResponse = NoClient
       /\ otherBusy = FALSE /\ dIn = NoClient /\ dOut = NoClient
       /\ file \in NamedLedgers
       /\ disk = InitialDisk(file)
       /\ params \in InitialParams
       /\ runState = "off"
       /\ rows = <<>> /\ fieldnames = <<>> /\ rows0 = <<>>
    \/ /\ InitFunction
       /\ runState = "unique"
       /\ dIn \in UniqueInputs

NextNames ==
    \/ NextClean
    \/ UniqueCall

SpecNames == InitNames /\ [][NextNames]_vars

\* the folder name of the k-th of the rows sel of rs, and its key
FolderOfRow(rs, sel, k) == normalize_to_dirname(RowFilename(rs[sel[k]]), 100)

\* the positions in sel of the rows whose name cannot be normalized
Unnormalizable(rs, sel) == {k \in 1..Len(sel) : ~FolderOfRow(rs, sel, k).ok}

\* the positions in sel of the rows whose folder name is, but for the case of
\* its letters, the folder name of a row before them
Repeats(rs, sel) ==
    {k \in 1..Len(sel) :
        /\ FolderOfRow(rs, sel, k).ok
        /\ \E j \in 1..(k - 1) :
              /\ FolderOfRow(rs, sel, j).ok
              /\ Lower(FolderOfRow(rs, sel, j).value) = Lower(FolderOfRow(rs, sel, k).value)}

\* the run was aborted before the dispatch: no future, no remote call, no
\* mark, and the ledger file is as it was loaded
NothingDispatched ==
    /\ \A i \in RowIds : fut[i] = "none" /\ marks[i] = <<>>
    /\ queue = <<>> /\ finished = <<>> /\ pend = <<>>
    /\ contacted = {} /\ saved = {}
    /\ \A w \in PoolThreads : wk[w] = IdleWorker
    /\ LoadRows(file) = rows0

UniqueOutcome(rs, sel, res) ==
    LET bad == Unnormalizable(rs, sel)
        rep == Repeats(rs, sel)
    IN  /\ res.error # "none" <=> (bad # {} \/ rep # {})
        /\ res.error = "normalize" <=> bad # {}
        /\ res.error = "normalize" =>
              res.row = sel[CHOOSE k \in bad : \A l \in bad : k <= l]
        /\ res.error = "duplicates" =>
              res.duplicates = {RowFilename(rs[sel[k]]) : k \in rep}

C24_WitnessRun ==
    /\ runState = "aborted"
    /\ Repeats(rows0, selected) # {}
    /\ \E i \in RowIds : IsCompleted(rows0[i])

\* ensure_unique_filenames failed on a name that cannot be normalized, with a
\* duplicate before it
C24_WitnessNormalize ==
    /\ runState = "unique" /\ dOut.done
    /\ dOut.value.error = "normalize" /\ dOut.value.row = 3
    /\ Repeats(dIn, <<1, 2>>) # {}

\* the process has exited
ProcessExited == runState \in {"early", "done", "aborted"}

\* the selected rows that were not done when the run began
SelectedPending == {i \in Range(selected) : ~IsCompleted(rows0[i])}

\* a problem of the row itself: no filename, a filename that cannot be
\* normalized, no url
HasRowProblem(row) ==
    \/ RowFilename(row) = <<>>
    \/ ~normalize_to_dirname(RowFilename(row), 100).ok
    \/ RowUrl(row) = <<>>

\* C25: a per-row problem (a filename that cannot be normalized, a missing
\* filename, a missing url) fails the affected row only: when the process has
\* exited on a selection without duplicates, each not yet done row with such a
\* problem is marked error in the ledger file and every other not yet done
\* row was processed, ending completed or error.
C25_PerRowOnly ==
    (ProcessExited /\ Repeats(rows0, selected) = {}) =>
        \A i \in SelectedPending :
            /\ FileRow(i)["status"] \in {"completed", "error"}
            /\ HasRowProblem(rows0[i]) => FileRow(i)["status"] = "error"

\* the pool threads inside save_bundle
Saving == {w \in PoolThreads : wk[w].pc \in {"aw_write", "aw_replace", "aw_cleanup"}}

\* the folder thread w writes into
FolderOfWorker(w) == normalize_to_dirname(RowFilename(rows[wk[w].row]), 100).value

\* the folder of the bundle of pending row i
FolderOfPending(i) == normalize_to_dirname(RowFilename(rows0[i]), 100).value

\* C26: within one run no two dispatched rows write to the same bundle
\* folder: the folders of the filenames of any two distinct pending rows are
\* different (also when the case of their letters is ignored), two workers
\* never write into the same folder, and the artifacts of the jobs of two
\* rows of the run lie in different folders.
C26_DisjointFolders ==
    Loaded =>
        /\ \A i, j \in PendingRows :
              i # j => Lower(FolderOfPending(i)) # Lower(FolderOfPending(j))
        /\ \A i \in PendingRows : FolderOfPending(i) # <<>>
        /\ \A w, v \in Saving : w # v => FolderOfWorker(w) # FolderOfWorker(v)
        /\ \A p, q \in DOMAIN disk :
              (p[2][1] = runs /\ q[2][1] = runs /\ p[2][2] # q[2][2]) => p[1] # q[1]

\* two workers are inside save_bundle at once, each for its row
C26_Witness ==
    /\ Cardinality(Saving) = 2
    /\ \E w, v \in Saving : wk[w].row # wk[v].row

\* a run ended with the bundles of two rows on disk
C26_WitnessBundles ==
    /\ runState = "done"
    /\ \E p, q \in DOMAIN disk : p[2][1] = runs /\ q[2][1] = runs /\ p[2][2] # q[2][2]

(***************************************************************************)
(* util/path.py on its own: normalize_to_dirname applied once to a name    *)
(* and a max_length.                                                       *)
(***************************************************************************)
\* the longest name given to normalize_to_dirname
MaxName == 3

NameChars == {"a", "B", "-", ".", " ", "/", "?", "E_ACUTE"}

NormalizeInputs ==
    [name : UNION {[1..n -> NameChars] : n \in 0..MaxName},
     max_length : {1, 2, DefaultMaxLength}]

NormalizeCall ==
    /\ runState = "normalize" /\ ~dOut.done
    /\ dOut' = Called(normalize_to_dirname(dIn.name, dIn.max_length))
    /\ UNCHANGED <<cl, last, lastResponse, cfg, otherBusy, dIn, programVars>>

InitNormalize ==
    /\ InitFunction
    /\ runState = "normalize"
    /\ dIn \in NormalizeInputs

NextNormalize == NormalizeCall

SpecNormalize == InitNormalize /\ [][NextNormalize]_vars

\* C27: normalize_to_dirname(name, max_length) either fails with a validation
\* error or returns a non-empty string of at most max_length characters, all
\* of them in [A-Za-z0-9._-], that neither begins nor ends with one of the
\* separators ".", "_" and "-"; it fails for an empty name.
C27_SafeDirname ==
    (runState = "normalize" /\ dOut.done) =>
        LET out == dOut.value
        IN  /\ dIn.name = <<>> => ~out.ok
            /\ out.ok =>
                  /\ out.value # <<>>
                  /\ Len(out.value) <= dIn.max_length
                  /\ \A k \in 1..Len(out.value) : out.value[k] \in SafeChars
                  /\ out.value[1] \notin {".", "_", "-"}
                  /\ out.value[Len(out.value)] \notin {".", "_", "-"}

\* C28: row identity is preserved under out-of-order completion: the index
\* of the k-th row slice returned is its position in the full ledger, offset
\* rows further than k; every mark_completed made for a row carries the id of
\* the job created for the url of that row and every mark_failed the
\* exception of that row's future (for a row without url, the message that
\* names its filename); when the run has gone through every future, in
\* whatever order they finished, the id of the job of a row is in the ledger
\* file on that row and on no other, and the error of a row on that row.
C28_RowIdentity ==
    Loaded =>
        /\ \A k \in 1..Len(selected) : selected[k] = params.offset + k
        /\ \A i \in RowIds : \A k \in 1..Len(marks[i]) :
              /\ i \in PendingRows /\ i \in Range(selected)
              /\ marks[i][k].op = "completed" =>
                    fut[i] = "ok" /\ i \in contacted /\ marks[i][k].arg = <<runs, i>>
              /\ marks[i][k].op = "failed" =>
                    /\ fut[i] = "failed" /\ marks[i][k].arg = result[i]
                    /\ RowUrl(rows0[i]) = <<>> =>
                          marks[i][k].arg = MsgMissingUrl(RowFilename(rows0[i]))
        /\ runState = "done" =>
              \A i \in PendingRows :
                  /\ fut[i] = "ok" =>
                        /\ FileRow(i)["transcription_id"] = <<runs, i>>
                        /\ FileRow(i)["url"] = rows0[i]["url"]
                        /\ \A j \in RowIds \ {i} :
                              FileRow(j)["transcription_id"] # <<runs, i>>
                  /\ fut[i] = "failed" =>
                        /\ FileRow(i)["error"] = TextTake(result[i], 500)
                        /\ FileRow(i)["transcription_id"] = rows0[i]["transcription_id"]
                  /\ FileRow(i)["filename"] = rows0[i]["filename"]

\* the row submitted last finished first and its job id is in the ledger file
\* on its row while the row submitted first is still running
C28_Witness ==
    /\ runState = "dispatch"
    /\ Len(pend) = 2
    /\ marks[pend[1]] = <<>> /\ fut[pend[1]] = "running"
    /\ fut[pend[2]] = "ok"
    /\ FileRow(pend[2])["transcription_id"] = <<runs, pend[2]>>
    /\ FileRow(pend[1])["transcription_id"] = <<>>

\* a run from an offset past the first row marked the row it had selected
C28_WitnessOffset ==
    /\ runState = "done"
    /\ params.offset > 0
    /\ selected # <<>> /\ selected[1] = params.offset + 1
    /\ marks[selected[1]] # <<>>

\* the futures of the run that have finished
FinishedFutures == {i \in RowIds : fut[i] \in {"ok", "failed"}}

\* the main thread has begun to handle a result
Handling ==
    \/ mpc \in {"mark", "unwind"}
    \/ completed + failed > 0
    \/ \E i \in RowIds : marks[i] # <<>>

\* the main thread takes the first future from as_completed
FirstYield == mpc = "drain" /\ mpc' = "mark" /\ completed + failed = 0

\* C29 as stated: every pending row is submitted before a result is handled
\* and the results are handled in the order the rows finished, those that
\* finished before the loop over the results began included.
C29_FinishOrder ==
    /\ [](Handling => nextSubmit = Len(pend))
    /\ [][(mpc = "drain" /\ mpc' = "mark") =>
            call'[MainThread].index = Head(finished) /\ finished' = Tail(finished)]_vars

\* C29: all pending rows are submitted to the pool before any result is
\* handled.  The rows that finished before the loop over the results began
\* are handled first, in an order of their own; the rows that finish later
\* are handled after them in the order they finish.  A row that has finished
\* is handled as soon as the main thread is free, whatever rows submitted
\* before it are still running.
C29_SubmitThenDrain ==
    /\ [](Loaded =>
            /\ Handling => nextSubmit = Len(pend)
            /\ Range(finished) \subseteq FinishedFutures
            /\ \A i \in Range(finished) : marks[i] = <<>>
            /\ (runState = "dispatch" /\ mpc = "drain" /\ finished # <<>>) => ENABLED MYield)
    /\ [][(runState = "dispatch" /\ runState' = "dispatch" /\ finished' # finished) =>
            \/ /\ FirstYield
               /\ call'[MainThread].index \in Range(finished)
               /\ Range(finished') = Range(finished) \ {call'[MainThread].index}
            \/ /\ mpc = "drain" /\ mpc' = "mark" /\ ~FirstYield
               /\ finished' = Tail(finished)
               /\ call'[MainThread].index = Head(finished)
            \/ \E i \in FinishedFutures' \ FinishedFutures : finished' = Append(finished, i)]_vars

\* the row submitted last has finished and is being marked while the row
\* submitted first is still running
C29_Witness ==
    /\ runState = "dispatch" /\ mpc = "mark"
    /\ Len(pend) = 2
    /\ call[MainThread].index = pend[2]
    /\ fut[pend[1]] = "running"

\* two rows had finished when the loop began and the one that finished last
\* is handled first
C29_WitnessEarly ==
    /\ runState = "dispatch" /\ mpc = "mark"
    /\ Len(pend) = 2
    /\ fut[pend[1]] = "failed" /\ fut[pend[2]] = "ok"
    /\ call[MainThread].index = pend[1]
    /\ finished = <<pend[2]>>
    /\ result[pend[1]] = MsgStorage

\* row i was loaded as a row whose bundle save failed in the run before: the
\* job of that run had completed and its json file is on disk
SaveFailedBefore(i) ==
    /\ runs > 1
    /\ rows0[i]["status"] = "error"
    /\ rows0[i]["error"] = MsgStorage
    /\ ArtifactPath(FolderOfPending(i), <<runs - 1, i>>, "json") \in DOMAIN disk

\* C30: when transcribe or the bundle save fails for a row whose job was
\* created and had completed, process_row fails as a whole: the row is marked
\* error and the ledger keeps the transcription_id the row had, not the id of
\* the new job; a run started afterwards takes the row up as pending and
\* submits its url again, the bundle and the id it records being those of a
\* new job.
C30_RetryFromScratch ==
    Loaded =>
        \A i \in RowIds :
            /\ (fut[i] = "failed" /\ marks[i] # <<>> /\ call[MainThread].pc = "idle") =>
                  /\ FileRow(i)["status"] = "error"
                  /\ FileRow(i)["transcription_id"] = rows0[i]["transcription_id"]
                  /\ FileRow(i)["transcription_id"] # <<runs, i>>
                  /\ ~IsCompleted(FileRow(i))
            /\ \A w \in PoolThreads :
                  (wk[w].row = i /\ wk[w].pc \in {"aw_write", "aw_replace", "aw_cleanup"}) =>
                      i \in contacted /\ wk[w].job = <<runs, i>>
            /\ (runs > 1 /\ rows0[i]["status"] = "error" /\ i \in Range(selected)
                   /\ runState # "aborted") =>
                  /\ i \in PendingRows
                  /\ rows0[i]["transcription_id"] # <<runs - 1, i>>
                  /\ fut[i] = "ok" => i \in contacted /\ result[i] = <<runs, i>>
                  /\ (fut[i] = "ok" /\ runState = "done") =>
                        /\ FileRow(i)["transcription_id"] = <<runs, i>>
                        /\ ArtifactPath(FolderOfPending(i), <<runs, i>>, "json") \in DOMAIN disk

\* the save of the bundle of a completed job failed in the first run; the
\* second run submitted the url again and recorded the id of the new job
C30_Witness ==
    /\ runState = "done"
    /\ \E i \in PendingRows :
          /\ SaveFailedBefore(i)
          /\ fut[i] = "ok"
          /\ FileRow(i)["transcription_id"] = <<runs, i>>

\* the save of the bundle of a completed job failed: the row is marked error
\* and the id of the job is not in the ledger
C30_WitnessFailed ==
    /\ runState = "done"
    /\ \E i \in PendingRows :
          /\ fut[i] = "failed" /\ result[i] = MsgStorage
          /\ i \in contacted
          /\ FileRow(i)["transcription_id"] = <<>>

(***************************************************************************)
(* C31: the rows in memory against the rows in the ledger file.            *)
(***************************************************************************)
\* a call of mark_completed or mark_failed has ended, either way
CallEnded(t) == call[t].pc \in {"returned", "raised"}

\* no call is between taking the lock and dropping it
NoCallInside == lock = NoThread /\ \A t \in Threads : call[t].pc \notin InCritical

\* C31: once a call of mark_completed / mark_failed has ended, by returning or
\* by raising because the rewrite failed, and no other call is inside its
\* critical section, the rows held in memory are the rows stored in the file.
C31_MemoryEqualsFile ==
    (NoCallInside /\ \E t \in Threads : CallEnded(t)) => rows = LoadRows(file)

\* C31, the consequence: a call that returned never stores in the file a mutation
\* that belongs to a call which raised.
C31_FailedMarkNotPersisted ==
    \A t, u \in Threads :
        (/\ call[t].pc = "raised"
         /\ call[u].pc = "returned"
         /\ call[t].index # call[u].index
         /\ NoCallInside)
            => FileRow(call[t].index) = rows0[call[t].index]

(***************************************************************************)
(* C32: the response _retry decides on against the response of the failed  *)
(* attempt itself.                                                         *)
(***************************************************************************)
\* _retry leaves its except SDKError branch: it sleeps to retry, or raises
Decides == cl.pc = "caught" /\ cl'.pc \in {"sleep", "raised"}

\* the response _retry reads is the one the failed attempt got
ReadsOwnResponse ==
    /\ cl.own # NoStatus
    /\ lastResponse.by = ThisWorker
    /\ lastResponse.status = cl.own

\* C32: when a call failed with an SDK error, the response on which _retry
\* decides between a retry and a raise, computes the delay and emits the event
\* is the response of that failed attempt: not a response to another worker's
\* request and not a response of an earlier attempt or call; an attempt that
\* got no response is not retried.
C32_OwnResponseDecides ==
    [][Decides => IF cl.own = NoStatus THEN cl'.pc = "raised" ELSE ReadsOwnResponse]_vars

\* a 400 was retried, because the response read was another worker's 429 / 5xx
RetriedOnOtherResponse ==
    /\ cl.pc = "sleep"
    /\ last.own = 400
    /\ last.seen \in {429, 500, 502, 503, 504}
    /\ lastResponse.by = OtherWorker

\* an attempt without a response was retried with one worker, because the
\* response read was the one of an earlier attempt
RetriedOnEarlierResponse ==
    /\ cl.pc = "sleep"
    /\ params.workers = 1
    /\ last.own = NoStatus
    /\ last.seen \in {429, 500, 502, 503, 504}

(***************************************************************************)
(* C33: a run whose calls of client.transcribe are followed step by step.  *)
(* One worker thread, so that the one client followed is the only one: the *)
(* thread takes a row, calls transcribe, whose requests the service may    *)
(* answer in any way, and saves the bundle, while the main thread marks    *)
(* the rows that finished.  Nothing kills the process and the ledger       *)
(* rewrites succeed.                                                       *)
(***************************************************************************)
\* process_row: result = client.transcribe(row.url) is called
WCallTranscribe(w) ==
    /\ Running(w) /\ wk[w].pc = "transcribe"
    /\ cl.pc = "idle"
    /\ wk' = [wk EXCEPT ![w].pc = "transcribing"]
    /\ contacted' = contacted \cup {wk[w].row}
    /\ cl' = StartCall(cl, "submit")
    /\ last' = NoAttempt
    /\ UNCHANGED <<fsVars, storeVars>>
    /\ UNCHANGED <<runs, marks, saved, savedKilled, rows0, flushOld>>
    /\ UNCHANGED <<runState, params, selected, pend, mpc, nextSubmit, queue, finished, fut,
                   result, clients, completed, failed, exitCode>>
    /\ UNCHANGED <<lastResponse, otherClientVars>>

\* process_row: client.transcribe returned the data of a completed job, or
\* raised and the exception leaves process_row
WTranscribeEnds(w) ==
    /\ Running(w) /\ wk[w].pc = "transcribing"
    /\ cl.pc \in {"returned", "raised"}
    /\ IF cl.pc = "returned"
       THEN /\ wk' = [wk EXCEPT ![w].pc = "aw_write",
                                ![w].job = JobId(runs, wk[w].row),
                                ![w].art = 1]
            /\ UNCHANGED <<fut, result, finished>>
       ELSE \E message \in TranscribeErrors : FutureFails(w, wk[w].row, message)
    /\ cl' = IdleClient
    /\ UNCHANGED <<fsVars, storeVars, histVars>>
    /\ UNCHANGED <<runState, params, selected, pend, mpc, nextSubmit, queue, clients,
                   completed, failed, exitCode>>
    /\ UNCHANGED <<last, lastResponse, otherClientVars>>

\* the steps inside a call of transcribe
InTranscribe ==
    \/ CInvoke
    \/ CSuccess
    \/ CSdkError
    \/ CSdkErrorNoResponse
    \/ CCaught
    \/ CException
    \/ CSleep
    \/ CCheck
    \/ CPollSleep

\* the steps of the threads of the run
DispatchedWhole ==
    \/ MainStep
    \/ StoreStep(MainThread)
    \/ \E w \in PoolThreads :
          \/ WStart(w)
          \/ WCallTranscribe(w)
          \/ WTranscribeEnds(w)
          \/ AwWrite(w)
          \/ AwReplace(w)
          \/ WorkerFault(w)
    \/ InTranscribe

NextWhole ==
    \/ StartRun
    \/ DispatchedWhole

\* a run with one worker on a ledger; the client has a finite timeout, a finite
\* max_retries and a positive poll interval
\* the ledgers whose first row was never attempted and whose other rows were
\* never attempted, have no url, or are done
WholeLedgers ==
    {Serialize(FullHeader, [i \in RowIds |-> InitialRow(i, kinds[i])]) :
        kinds \in {k \in InitialKinds :
                      k[1] = "new" /\ \A i \in RowIds : k[i] \in {"new", "nourl", "done"}}}

InitWhole ==
    /\ file \in WholeLedgers
    /\ disk = InitialDisk(file)
    /\ InitRun
    /\ InitNoClient
    /\ cfg \in {c \in ClientCfgs : c.observer}
    /\ params \in {p \in InitialParams : p.workers = 1 /\ p.offset = 0}
    /\ runState = "off"
    /\ rows = <<>>
    /\ fieldnames = <<>>
    /\ rows0 = <<>>

\* the threads keep running and every request sent ends
SpecWhole == InitWhole /\ [][NextWhole]_vars /\ WF_vars(DispatchedWhole)

\* the call of transcribe has ended
TranscribeEnded == cl.pc \in {"returned", "raised"}

\* the run has ended: every future was handled, every pending row is terminal
\* in the ledger file and the exit code is set
RunEnded ==
    /\ AllTerminal
    /\ finished = <<>> /\ queue = <<>>
    /\ completed + failed = Len(pend)
    /\ \A i \in PendingRows : fut[i] \in {"ok", "failed"}
    /\ exitCode \in {0, 1}

\* C33: with a finite timeout, a finite max_retries and finite delays every
\* call of transcribe eventually returns or raises, whatever the service
\* answers; and every run that dispatched its rows eventually has handled every
\* future, has a terminal status in the ledger file for every pending row, and
\* exits.
C33_Terminates ==
    /\ (cl.pc # "idle") ~> TranscribeEnded
    /\ (runState = "dispatch") ~> RunEnded

\* the second row's call of transcribe ran into the timeout, after failed
\* attempts, while the first row is already completed in the ledger file
C33_Witness ==
    /\ \E w \in PoolThreads : wk[w].pc = "transcribing"
    /\ cl.pc = "raised" /\ cl.err = "timeout"
    /\ cl.earlier
    /\ \E i \in PendingRows : FileRow(i)["status"] = "completed" /\ Len(marks[i]) = 1

\* the run ended with one row completed and one failed
C33_WitnessEnded ==
    /\ RunEnded
    /\ completed = 1 /\ failed = 1

====
